---- MODULE Spec2Model ----
(***************************************************************************)
(* A model of the extractive summarization engine of bilingual-summarizer  *)
(* and of the exported calls around it (summarize, filterResultFields).    *)
(* A string is a sequence of Unicode code points, so that the regular      *)
(* expressions, trim, split, slice and join of the source are computed as  *)
(* the source computes them.  A score is an exact rational.                *)
(* Spec: direct calls of the engines.  SpecSummarize: calls of summarize   *)
(* and of filterResultFields.  SpecRepeat: summarizeText on one sentence   *)
(* repeated.                                                               *)
(***************************************************************************)
EXTENDS Integers, Sequences, FiniteSets, TLC

\* ------------------------------------------------------------ characters

Space == 32
Bang == 33
Period == 46
Question == 63
ArabicQuestion == 1567
IdeographicStop == 12290
ArabicBlockFirst == 1536
ArabicBlockLast == 1791

\* /\s/ and the white space String.prototype.trim removes
IsSpace(c) ==
    c \in ({9, 10, 11, 12, 13, Space, 160, 5760, 8232, 8233, 8239, 8287, 12288, 65279}
             \cup (8192..8202))

\* [.!?] of the Latin sentence boundary
IsLatinTerminator(c) == c \in {Period, Bang, Question}

\* the character class of the Arabic sentence boundary
IsArabicTerminator(c) == c \in {IdeographicStop, ArabicQuestion, Bang, Period, Question}

\* [\u0600-\u06FF]
IsArabicChar(c) == c >= ArabicBlockFirst /\ c <= ArabicBlockLast

\* \w of a JavaScript regular expression without the u flag: [A-Za-z0-9_]
IsWordChar(c) == (c >= 48 /\ c <= 57) \/ (c >= 65 /\ c <= 90) \/ c = 95 \/ (c >= 97 /\ c <= 122)

\* ------------------------------------------------------- string helpers

\* String.prototype.trim
Trim(s) ==
    LET kept == {i \in 1..Len(s) : ~IsSpace(s[i])}
    IN  IF kept = {} THEN <<>>
        ELSE SubSeq(s, CHOOSE i \in kept : \A j \in kept : i <= j,
                       CHOOSE i \in kept : \A j \in kept : j <= i)

\* the elements of a finite set of numbers in increasing order
Ascending(S) ==
    [k \in 1..Cardinality(S) |-> CHOOSE x \in S : Cardinality({y \in S : y < x}) = k - 1]

\* Array.prototype.join over strings
RECURSIVE JoinWith(_, _)
JoinWith(parts, sep) ==
    IF parts = <<>> THEN <<>>
    ELSE IF Len(parts) = 1 THEN parts[1]
    ELSE parts[1] \o sep \o JoinWith(Tail(parts), sep)

\* Array.prototype.slice(0, end), a negative end counting from the back
SliceTo(arr, end) ==
    LET n == Len(arr)
        e == IF end < 0 THEN (IF n + end < 0 THEN 0 ELSE n + end)
             ELSE (IF end > n THEN n ELSE end)
    IN  SubSeq(arr, 1, e)

\* String.prototype.includes
Includes(s, t) ==
    \E i \in 1..(Len(s) - Len(t) + 1) : SubSeq(s, i, i + Len(t) - 1) = t

\* the separators of the split calls of the source:
\*   "latin"   /(?<=[.!?])\s+/      "arabic"  /[\u3002\u061F!\.!\?]+/
\*   "space"   /\s+/                "period"  '.'
\*   "marks"   /[.!?]+/
\* IsSeparator(mode, s, i): the character at i belongs to a match
IsSeparator(mode, s, i) ==
    CASE mode = "latin"  ->
            /\ IsSpace(s[i])
            /\ \E j \in 2..i : /\ IsLatinTerminator(s[j - 1])
                               /\ \A k \in j..i : IsSpace(s[k])
      [] mode = "arabic" -> IsArabicTerminator(s[i])
      [] mode = "space"  -> IsSpace(s[i])
      [] mode = "marks"  -> IsLatinTerminator(s[i])
      [] OTHER           -> s[i] = Period

\* String.prototype.split: the pieces between the matches, a match being a
\* maximal run of separator characters (one character for '.')
Split(mode, s) ==
    LET n == Len(s)
        sep == {i \in 1..n : IsSeparator(mode, s, i)}
        first == Ascending({i \in sep : mode = "period" \/ (i - 1) \notin sep})
        last == Ascending({i \in sep : mode = "period" \/ (i + 1) \notin sep})
        m == Len(first)
    IN  [k \in 1..(m + 1) |->
            SubSeq(s, IF k = 1 THEN 1 ELSE last[k - 1] + 1,
                      IF k = m + 1 THEN n ELSE first[k] - 1)]

\* .filter(Boolean) over strings: the empty string is the only falsy one
FilterBoolean(parts) == SelectSeq(parts, LAMBDA p : p # <<>>)

\* .map(s => s.trim())
MapTrim(parts) == [i \in 1..Len(parts) |-> Trim(parts[i])]

\* isArabic: the character test; without an Arabic character the detectors
\* have no Arabic evidence and the answer is not 'ar'
isArabic(text) == \E i \in 1..Len(text) : IsArabicChar(text[i])

\* extractSentences
extractSentences(text) ==
    IF isArabic(text)
    THEN MapTrim(FilterBoolean(Split("arabic", text)))
    ELSE MapTrim(FilterBoolean(Split("latin", text)))

\* ----------------------------------------------------------- markers

\* importantTerms of scoreArabicSentences
importantTermsText ==
    << <<1605, 1606, 32, 1571, 1607, 1605>>,
       <<1610, 1580, 1576>>,
       <<1590, 1585, 1608, 1585, 1610>>,
       <<1571, 1587, 1575, 1587, 1610>>,
       <<1605, 1607, 1605>>,
       <<1582, 1604, 1575, 1589, 1577>>,
       <<1606, 1578, 1610, 1580, 1577>>,
       <<1573, 1606, 1617>>,
       <<1573, 1606>> >>

\* importantMarkers of scoreArabicSentencesAdvanced
importantMarkers ==
    << <<1605, 1606, 32, 1571, 1607, 1605>>,
       <<1610, 1580, 1576>>,
       <<1590, 1585, 1608, 1585, 1610>>,
       <<1571, 1587, 1575, 1587, 1610>>,
       <<1605, 1607, 1605>>,
       <<1582, 1604, 1575, 1589, 1577>>,
       <<1606, 1578, 1610, 1580, 1577>>,
       <<1573, 1606, 1617>>,
       <<1573, 1606>>,
       <<1604, 1584, 1604, 1603>>,
       <<1608, 1576, 1575, 1604, 1578, 1575, 1604, 1610>>,
       <<1608, 1582, 1604, 1575, 1589, 1577, 32, 1575, 1604, 1602, 1608, 1604>>,
       <<1576, 1575, 1582, 1578, 1589, 1575, 1585>>,
       <<1576, 1588, 1603, 1604, 32, 1571, 1587, 1575, 1587, 1610>>,
       <<1605, 1606, 32, 1575, 1604, 1580, 1583, 1610, 1585, 32, 1576, 1575, 1604, 1584, 1603, 1585>>,
       <<1604, 1575, 32, 1576, 1583, 32, 1605, 1606>>,
       <<1605, 1606, 32, 1575, 1604, 1590, 1585, 1608, 1585, 1610>>,
       <<1581, 1610, 1579, 32, 1571, 1606>>,
       <<1576, 1575, 1604, 1573, 1590, 1575, 1601, 1577, 32, 1573, 1604, 1609, 32, 1584, 1604, 1603>>,
       <<1608, 1593, 1604, 1575, 1608, 1577, 32, 1593, 1604, 1609, 32, 1584, 1604, 1603>> >>

\* importantTerms of scoreArabicSentencesBasic
importantTermsBasic ==
    << <<1605, 1606, 32, 1571, 1607, 1605>>,
       <<1610, 1580, 1576>>,
       <<1590, 1585, 1608, 1585, 1610>>,
       <<1571, 1587, 1575, 1587, 1610>>,
       <<1605, 1607, 1605>>,
       <<1582, 1604, 1575, 1589, 1577>>,
       <<1606, 1578, 1610, 1580, 1577>>,
       <<1573, 1606, 1617>>,
       <<1573, 1606>>,
       <<1604, 1584, 1604, 1603>>,
       <<1608, 1576, 1575, 1604, 1578, 1575, 1604, 1610>> >>

\* indicatorPhrases of the stand-alone Arabic summarizer
indicatorPhrases ==
    << <<1601, 1610, 32, 1575, 1604, 1582, 1578, 1575, 1605>>,
       <<1605, 1606, 32, 1571, 1607, 1605>>,
       <<1576, 1588, 1603, 1604, 32, 1571, 1587, 1575, 1587, 1610>>,
       <<1610, 1593, 1578, 1576, 1585>>,
       <<1575, 1604, 1607, 1583, 1601, 32, 1575, 1604, 1585, 1574, 1610, 1587, 1610>>,
       <<1605, 1606, 32, 1575, 1604, 1590, 1585, 1608, 1585, 1610>>,
       <<1610, 1580, 1576, 32, 1571, 1606, 32, 1606, 1604, 1575, 1581, 1592>>,
       <<1578, 1576, 1610, 1606, 32, 1571, 1606>> >>

\* getArabicStopWords
getArabicStopWords ==
    << <<1605, 1606>>,
       <<1573, 1604, 1609>>,
       <<1593, 1606>>,
       <<1593, 1604, 1609>>,
       <<1601, 1610>>,
       <<1605, 1593>>,
       <<1607, 1584, 1575>>,
       <<1607, 1584, 1607>>,
       <<1584, 1604, 1603>>,
       <<1578, 1604, 1603>>,
       <<1571, 1606, 1575>>,
       <<1571, 1606, 1578>>,
       <<1607, 1608>>,
       <<1607, 1610>>,
       <<1606, 1581, 1606>>,
       <<1607, 1605>>,
       <<1603, 1575, 1606>>,
       <<1603, 1575, 1606, 1578>>,
       <<1610, 1603, 1608, 1606>>,
       <<1571, 1606>>,
       <<1604, 1575>>,
       <<1605, 1575>>,
       <<1608>>,
       <<1571, 1608>>,
       <<1579, 1605>>,
       <<1573, 1606>>,
       <<1573, 1584, 1575>>,
       <<1581, 1578, 1609>>,
       <<1602, 1583>>,
       <<1604, 1602, 1583>>,
       <<1580, 1583, 1575>>,
       <<1601, 1602, 1591>>,
       <<1603, 1604>>,
       <<1576, 1593, 1590>>,
       <<1605, 1579, 1604>>,
       <<1593, 1606, 1583, 1605, 1575>>,
       <<1603, 1610, 1601>>,
       <<1604, 1605, 1575, 1584, 1575>>,
       <<1605, 1578, 1609>>,
       <<1571, 1610, 1606>>,
       <<1604, 1603, 1606>>,
       <<1603, 1605, 1575>>,
       <<1576, 1593, 1583>>,
       <<1602, 1576, 1604>>,
       <<1582, 1604, 1575, 1604>>,
       <<1605, 1606, 1584>>,
       <<1576, 1610, 1606>>,
       <<1610, 1575>>,
       <<1608, 1604, 1603, 1606>>,
       <<1604, 1584, 1604, 1603>>,
       <<1576, 1604>>,
       <<1576, 1610, 1606, 1605, 1575>>,
       <<1575, 1604, 1584, 1610>>,
       <<1575, 1604, 1578, 1610>>,
       <<1575, 1604, 1584, 1610, 1606>>,
       <<1575, 1604, 1604, 1608, 1575, 1578, 1610>> >>

\* ------------------------------------------------------------ tokens

\* String.prototype.toLowerCase on the ASCII letters
ToLowerCase(s) == [i \in 1..Len(s) |-> IF s[i] >= 65 /\ s[i] <= 90 THEN s[i] + 32 ELSE s[i]]

\* s.match(/\b\w+\b/g) || []: the maximal runs of word characters
MatchWords(s) ==
    LET n == Len(s)
        word == {i \in 1..n : IsWordChar(s[i])}
        first == Ascending({i \in word : (i - 1) \notin word})
        last == Ascending({i \in word : (i + 1) \notin word})
    IN  [k \in 1..Len(first) |-> SubSeq(s, first[k], last[k])]

\* canonical decomposition of the precomposed Arabic letters
RECURSIVE NFD(_)
NFD(s) ==
    IF s = <<>> THEN <<>>
    ELSE LET c == Head(s)
             d == CASE c = 1570 -> <<1575, 1619>>
                    [] c = 1571 -> <<1575, 1620>>
                    [] c = 1572 -> <<1608, 1620>>
                    [] c = 1573 -> <<1575, 1621>>
                    [] c = 1574 -> <<1610, 1620>>
                    [] c = 1728 -> <<1749, 1620>>
                    [] c = 1730 -> <<1729, 1620>>
                    [] c = 1747 -> <<1746, 1620>>
                    [] OTHER    -> <<c>>
         IN  d \o NFD(Tail(s))

\* [\u064B-\u065F\u0670]
IsDiacritic(c) == (c >= 1611 /\ c <= 1631) \/ c = 1648

\* NFD of a string from which the diacritics have been removed
decomposedAfterStripping(w) == NFD(SelectSeq(w, LAMBDA c : ~IsDiacritic(c)))

\* word.normalize('NFD').replace(/[\u064B-\u065F\u0670]/g, '')
normalizedWord(word) == SelectSeq(NFD(word), LAMBDA c : ~IsDiacritic(c))

RECURSIVE Flatten(_)
Flatten(lists) == IF lists = <<>> THEN <<>> ELSE Head(lists) \o Flatten(Tail(lists))

\* wordFrequency[word] || 0, the table held as the sequence of counted tokens
Frequency(counted, word) == Cardinality({i \in 1..Len(counted) : counted[i] = word})

RECURSIVE SumSeq(_)
SumSeq(ns) == IF ns = <<>> THEN 0 ELSE Head(ns) + SumSeq(Tail(ns))

\* ------------------------------------------------------------ scores

RECURSIVE GCD(_, _)
GCD(a, b) == IF b = 0 THEN a ELSE GCD(b, a % b)

\* the number num / (den * sqrt(root)), in lowest terms
Rational(n, d, r) ==
    LET g == IF n = 0 THEN d ELSE GCD(n, d)
    IN  [num |-> n \div g, den |-> d \div g, root |-> IF n = 0 THEN 1 ELSE r]

Zero == Rational(0, 1, 1)

\* score *= p / q
Times(s, p, q) == Rational(s.num * p, s.den * q, s.root)

\* score += c * 0.5
PlusHalves(s, c) == Rational(2 * s.num + c * s.den, 2 * s.den, s.root)

\* a < b
ScoreLess(a, b) ==
    IF a.root = b.root
    THEN a.num * b.den < b.num * a.den
    ELSE a.num * a.num * b.den * b.den * b.root < b.num * b.num * a.den * a.den * a.root

ScoreEqual(a, b) == ~ScoreLess(a, b) /\ ~ScoreLess(b, a)

\* the first matching marker multiplies once (for ... break)
MarkerBoost(score, text, markers, p, q) ==
    IF \E i \in 1..Len(markers) : Includes(text, markers[i]) THEN Times(score, p, q) ELSE score

\* ----------------------------------------------------------- scorers
\* Every scorer returns the records {text, score, index}, index from 0.

\* the first or the last sentence, else the leading tenth of the document
\* a boost that forgets the last sentence
BoostFirstOnly(score, index, n) ==
    IF index = 0 THEN Times(score, 5, 4)
    ELSE IF 10 * index < n THEN Times(score, 11, 10)
    ELSE score

PositionalBoostText(score, index, n) ==
    IF index = 0 \/ index = n - 1 THEN Times(score, 5, 4)
    ELSE IF 10 * index < n THEN Times(score, 11, 10)
    ELSE score

\* the first sentence, else the last, else the leading fifth of the document
PositionalBoostArabic(score, index, n) ==
    IF index = 0 THEN Times(score, 3, 2)
    ELSE IF index = n - 1 THEN Times(score, 13, 10)
    ELSE IF 5 * index < n THEN Times(score, 6, 5)
    ELSE score

scoreEnglishSentences(sentences) ==
    LET n == Len(sentences)
        wordsOf(i) == MatchWords(ToLowerCase(sentences[i]))
        wordFrequency ==
            Flatten([i \in 1..n |-> SelectSeq(wordsOf(i), LAMBDA w : Len(w) > 1)])
    IN  [i \in 1..n |->
            LET words == wordsOf(i)
                total == SumSeq([j \in 1..Len(words) |->
                            IF Len(words[j]) > 1 THEN Frequency(wordFrequency, words[j]) ELSE 0])
            IN  IF Len(words) < 3
                THEN [text |-> sentences[i], score |-> Zero, index |-> i - 1]
                ELSE [text |-> sentences[i],
                      score |-> PositionalBoostText(Rational(total, Len(words), 1), i - 1, n),
                      index |-> i - 1]]

\* the wordFrequency table of scoreArabicSentences: the words of
\* sentence.split(/\s+/) longer than one unit, as they are written
wordFrequencyArabic(sentences) ==
    Flatten([i \in 1..Len(sentences) |->
        SelectSeq(Split("space", sentences[i]), LAMBDA w : Len(w) > 1)])

\* wordFrequency[word] || 0
LookupWord(wordFrequency, word) == Frequency(wordFrequency, word)

\* wordFrequency[normalizedWord] || 0
LookupNormalizedWord(wordFrequency, word) == Frequency(wordFrequency, normalizedWord(word))

scoreArabicSentences(sentences) ==
    LET n == Len(sentences)
        wordsOf(i) == Split("space", sentences[i])
        wordFrequency == wordFrequencyArabic(sentences)
    IN  [i \in 1..n |->
            LET words == wordsOf(i)
                total == SumSeq([j \in 1..Len(words) |->
                            IF Len(words[j]) > 1 THEN LookupWord(wordFrequency, words[j]) ELSE 0])
            IN  IF Len(words) < 2
                THEN [text |-> sentences[i], score |-> Zero, index |-> i - 1]
                ELSE [text |-> sentences[i],
                      score |-> MarkerBoost(
                                    PositionalBoostText(Rational(total, Len(words), 1), i - 1, n),
                                    sentences[i], importantTermsText, 23, 20),
                      index |-> i - 1]]

\* the wordFrequency table of scoreArabicSentencesBasic: the words longer than
\* one unit, normalized
wordFrequencyBasic(sentences) ==
    Flatten([i \in 1..Len(sentences) |->
        LET kept == SelectSeq(Split("space", sentences[i]), LAMBDA w : Len(w) > 1)
        IN  [j \in 1..Len(kept) |-> normalizedWord(kept[j])]])

scoreArabicSentencesBasic(sentences) ==
    LET n == Len(sentences)
        wordsOf(i) == Split("space", sentences[i])
        wordFrequency == wordFrequencyBasic(sentences)
    IN  [i \in 1..n |->
            LET words == wordsOf(i)
                total == SumSeq([j \in 1..Len(words) |->
                            IF Len(words[j]) > 1
                            THEN LookupNormalizedWord(wordFrequency, words[j]) ELSE 0])
            IN  IF Len(words) < 2
                THEN [text |-> sentences[i], score |-> Zero, index |-> i - 1]
                ELSE [text |-> sentences[i],
                      score |-> MarkerBoost(
                                    PositionalBoostArabic(Rational(total, Len(words), 1), i - 1, n),
                                    sentences[i], importantTermsBasic, 5, 4),
                      index |-> i - 1]]

\* The optional backends are external packages.  A backend that answers is
\* taken to tokenize on white space; the one with part-of-speech output
\* (arabic-nlp) reports as nouns what the tagger of the run says: "none"
\* (no nouns) or "all" (every token).
BackendTokens(sentence) == Split("space", sentence)

BackendNouns(sentence, loaded, tagger) ==
    IF "arabicNLP" \in loaded /\ tagger = "all" THEN BackendTokens(sentence) ELSE <<>>

\* only arabic-nlp is looked at
hasPreferredLibrary(loaded) == "arabicNLP" \in loaded

\* hasAnyArabicLibrary
hasAnyArabicLibrary(loaded) ==
    loaded \cap {"arabicNLP", "nodeArabic", "arabicWordnet", "arWordTokenizer"} # {}

\* the wordFrequency table of scoreArabicSentencesAdvanced: the tokens of the
\* backend, normalized, those longer than one unit
wordFrequencyAdvanced(sentences) ==
    Flatten([i \in 1..Len(sentences) |->
        LET tokens == BackendTokens(sentences[i])
            normal == [j \in 1..Len(tokens) |-> normalizedWord(tokens[j])]
        IN  SelectSeq(normal, LAMBDA w : Len(w) > 1)])

scoreArabicSentencesAdvanced(sentences, loaded, tagger) ==
    LET n == Len(sentences)
        wordFrequency == wordFrequencyAdvanced(sentences)
        nounScores(i) == Len(BackendNouns(sentences[i], loaded, tagger))
    IN  [i \in 1..n |->
            LET words == Split("space", sentences[i])
                total == SumSeq([j \in 1..Len(words) |->
                            IF Len(words[j]) > 1
                            THEN LookupNormalizedWord(wordFrequency, words[j]) ELSE 0])
            IN  IF Len(sentences[i]) < 20
                THEN [text |-> sentences[i], score |-> Zero, index |-> i - 1]
                ELSE [text |-> sentences[i],
                      score |-> MarkerBoost(
                                    PositionalBoostArabic(
                                        PlusHalves(Rational(total, Len(words), 1), nounScores(i)),
                                        i - 1, n),
                                    sentences[i], importantMarkers, 13, 10),
                      index |-> i - 1]]

\* ------------------------------------------- the summarizer over libraries
\* The second summarizeArabicText of the repository (with extractArabicSentences,
\* scoreArabicSentences over word frequencies and calculateArabicWordFrequencies);
\* its definitions carry the suffix Lib where the name is taken.

NewLine == 10
Colon == 58
ArabicSemicolon == 1563

\* sentenceEndMarkers, the characters among them ('\n\n' is never one character)
IsSentenceEndMarker(c) == c \in {Period, Question, Bang, ArabicQuestion, Colon, ArabicSemicolon}

\* a sentence ends at a marker that is the last character or is followed by a
\* space or a new line; what remains after the last one is a sentence too
extractArabicSentences(text) ==
    LET n == Len(text)
        ends == Ascending({i \in 1..n :
                    /\ IsSentenceEndMarker(text[i])
                    /\ (i = n \/ text[i + 1] = Space \/ text[i + 1] = NewLine)})
        m == Len(ends)
        pushed == [k \in 1..m |->
                      Trim(SubSeq(text, IF k = 1 THEN 1 ELSE ends[k - 1] + 1, ends[k]))]
        rest == SubSeq(text, IF m = 0 THEN 1 ELSE ends[m] + 1, n)
        all == IF Len(Trim(rest)) > 0 THEN Append(pushed, Trim(rest)) ELSE pushed
    IN  SelectSeq(all, LAMBDA s : Len(Trim(s)) > 0)

\* calculateArabicWordFrequencies, the table held as the sequence of counted tokens
calculateArabicWordFrequencies(sentences) ==
    Flatten([i \in 1..Len(sentences) |->
        LET words == BackendTokens(sentences[i])
            normal == [j \in 1..Len(words) |-> ToLowerCase(Trim(words[j]))]
        IN  SelectSeq(normal, LAMBDA w :
                ~(Len(w) < 2 \/ \E k \in 1..Len(getArabicStopWords) : getArabicStopWords[k] = w))])

\* score / Math.sqrt(words.length), the optional importance term being 0 (the
\* loaded package offers no getImportance)
scoreArabicSentencesLib(sentences) ==
    LET n == Len(sentences)
        wordFrequencies == calculateArabicWordFrequencies(sentences)
    IN  [i \in 1..n |->
            LET words == Split("space", sentences[i])
                total == SumSeq([j \in 1..Len(words) |-> Frequency(wordFrequencies, words[j])])
                base == Rational(total, 1, Len(words))
                placed == IF i - 1 = 0 \/ i - 1 = n - 1 THEN Times(base, 5, 4) ELSE base
            IN  [text |-> sentences[i],
                 score |-> MarkerBoost(placed, sentences[i], indicatorPhrases, 13, 10),
                 index |-> i - 1]]

\* ---------------------------------------------------------- selection

\* Array.prototype.sort is stable: an element goes before the first one the
\* comparator puts strictly after it
RECURSIVE InsertByScore(_, _)
InsertByScore(sorted, x) ==
    IF sorted = <<>> THEN <<x>>
    ELSE IF ScoreLess(Head(sorted).score, x.score) THEN <<x>> \o sorted
    ELSE <<Head(sorted)>> \o InsertByScore(Tail(sorted), x)

RECURSIVE SortByScoreFrom(_, _)
SortByScoreFrom(rest, sorted) ==
    IF rest = <<>> THEN sorted ELSE SortByScoreFrom(Tail(rest), InsertByScore(sorted, Head(rest)))

\* a sort that is not stable: sentences of equal score come out in reverse
SortTiesReversed(scoredSentences) ==
    SortByScoreFrom([i \in 1..Len(scoredSentences) |->
                        scoredSentences[Len(scoredSentences) + 1 - i]], <<>>)

\* no sort: the sentences stay in document order
KeepDocumentOrder(scoredSentences) == scoredSentences

\* [...scoredSentences].sort((a, b) => b.score - a.score)
SortByScoreDescending(scoredSentences) == SortByScoreFrom(scoredSentences, <<>>)

RECURSIVE InsertByIndex(_, _)
InsertByIndex(sorted, x) ==
    IF sorted = <<>> THEN <<x>>
    ELSE IF x.index < Head(sorted).index THEN <<x>> \o sorted
    ELSE <<Head(sorted)>> \o InsertByIndex(Tail(sorted), x)

RECURSIVE SortByIndexFrom(_, _)
SortByIndexFrom(rest, sorted) ==
    IF rest = <<>> THEN sorted ELSE SortByIndexFrom(Tail(rest), InsertByIndex(sorted, Head(rest)))

\* the selection left in score order
KeepScoreOrder(topSentences) == topSentences

\* topSentences.sort((a, b) => a.index - b.index)
SortByIndex(topSentences) == SortByIndexFrom(topSentences, <<>>)

\* a slice that stops one element early
TakeOneLess(sortedSentences, sentenceCount) == SliceTo(sortedSentences, sentenceCount - 1)

\* sortedSentences.slice(0, sentenceCount)
TakeTop(sortedSentences, sentenceCount) == SliceTo(sortedSentences, sentenceCount)

\* sort a copy by score, take the first sentenceCount, restore the document order
SelectTop(scoredSentences, sentenceCount) ==
    SortByIndex(TakeTop(SortByScoreDescending(scoredSentences), sentenceCount))

\* topSentences.map(s => s.text).join(' ')
JoinSentences(topSentences) ==
    JoinWith([i \in 1..Len(topSentences) |-> topSentences[i].text], <<Space>>)

\* text.split('.').slice(0, sentenceCount).join('.').trim() || text
FallbackTruncated(text, sentenceCount) ==
    LET truncated == Trim(JoinWith(SliceTo(Split("period", text), sentenceCount), <<Period>>))
    IN  IF truncated # <<>> THEN truncated ELSE text

\* ------------------------------------------- cleaning and response shaping

\* \p{M} in the Arabic block: the combining marks
IsArabicMark(c) ==
    \/ (c >= 1552 /\ c <= 1562)
    \/ (c >= 1611 /\ c <= 1631)
    \/ c = 1648
    \/ (c >= 1750 /\ c <= 1756)
    \/ (c >= 1759 /\ c <= 1764)
    \/ c \in {1767, 1768}
    \/ (c >= 1770 /\ c <= 1773)

\* what [^\p{L}\p{N}\p{P}\s] leaves, over ASCII and the Arabic block: the
\* symbols, the control and format characters and the marks are removed
IsCleanChar(c) ==
    \/ IsSpace(c)
    \/ (c >= 33 /\ c <= 126 /\ c \notin {36, 43, 60, 61, 62, 94, 96, 124, 126})
    \/ /\ IsArabicChar(c)
       /\ ~IsArabicMark(c)
       /\ c \notin ((1536..1541) \cup {1542, 1543, 1544, 1547, 1550, 1551, 1564, 1757, 1758,
                                     1769, 1789, 1790})

\* cleanText for a text without a tag (no content of the model has one):
\* the characters are filtered, a run of white space becomes one space, the
\* ends are trimmed; the sanitize of the optional arajs package is its
\* fallback (text) => text
cleanText(text) ==
    LET cleaned == SelectSeq(text, IsCleanChar)
    IN  Trim(JoinWith(Split("space", cleaned), <<Space>>))

\* responseStructure: null, an array of field names, or an object whose
\* include and exclude are arrays or are absent
NoList == [present |-> FALSE, list |-> <<>>]

ListOf(fields) == [present |-> TRUE, list |-> fields]

NoStructure == [kind |-> "null", list |-> <<>>, include |-> NoList, exclude |-> NoList]

ArrayStructure(fields) ==
    [kind |-> "array", list |-> fields, include |-> NoList, exclude |-> NoList]

ObjectStructure(inc, exc) == [kind |-> "object", list |-> <<>>, include |-> inc, exclude |-> exc]

\* the keys of an object
Keys(record) == DOMAIN record

Listed(fields) == {fields[i] : i \in 1..Len(fields)}

\* an inclusion that keeps the listed fields only
IncludeListedOnly(record, fields) ==
    [f \in {g \in Listed(fields) : g \in Keys(record)} |-> record[f]]

\* the array branch of filterResultFields: the listed fields the record has,
\* and ok unless it is listed or undefined
IncludeFields(record, fields) ==
    LET includeOk == ~("ok" \in Listed(fields)) /\ "ok" \in Keys(record)
        kept == {f \in Listed(fields) : f \in Keys(record)}
                    \cup (IF includeOk THEN {"ok"} ELSE {})
    IN  [f \in kept |-> record[f]]

\* the exclude branch: a copy without the listed fields
ExcludeFields(record, fields) == [f \in (Keys(record) \ Listed(fields)) |-> record[f]]

\* a condition that takes a list for given only when it has an element
BothNonEmpty(responseObj) ==
    /\ responseObj.include.present /\ Len(responseObj.include.list) > 0
    /\ responseObj.exclude.present /\ Len(responseObj.exclude.list) > 0

\* responseObj.include && responseObj.exclude: an array is truthy, empty or not
BothGiven(responseObj) == responseObj.include.present /\ responseObj.exclude.present

ConflictMessage == "Cannot use both 'include' and 'exclude' in responseStructure simultaneously"

\* filterResultFields: threw, or the filtered record
filterResultFields(record, responseStructure) ==
    IF responseStructure.kind = "array"
    THEN [threw |-> FALSE, value |-> IncludeFields(record, responseStructure.list)]
    ELSE IF BothGiven(responseStructure)
    THEN [threw |-> TRUE, value |-> record]
    ELSE IF responseStructure.include.present
    THEN [threw |-> FALSE, value |-> IncludeFields(record, responseStructure.include.list)]
    ELSE IF responseStructure.exclude.present
    THEN [threw |-> FALSE, value |-> ExcludeFields(record, responseStructure.exclude.list)]
    ELSE [threw |-> FALSE, value |-> record]

\* cleanedText.split(/\s+/).filter(Boolean).length
WordCount(cleaned) == Len(FilterBoolean(Split("space", cleaned)))

\* const result of summarize.  The fields this model does not compute hold
\* "unmodelled"; the title option is not given and the content has no tag, so
\* title is '' and image is undefined; under 200 words the reading time is 1
SuccessRecord(summaryText, cleaned, short) ==
    [ok |-> TRUE,
     title |-> "",
     summary |-> summaryText,
     language |-> "unmodelled",
     languageName |-> "unmodelled",
     sentiment |-> "unmodelled",
     topics |-> <<"unmodelled">>,
     relatedTopics |-> IF short THEN <<>> ELSE <<"unmodelled">>,
     words |-> WordCount(cleaned),
     sentences |-> Len(extractSentences(cleaned)),
     readingTime |-> 1,
     difficulty |-> IF short THEN "easy" ELSE "unmodelled",
     image |-> "undefined"]

\* an error result that is not marked as one
errorResultOk(msg) ==
    [ok |-> TRUE,
     error |-> "Failed to summarize the content",
     message |-> msg,
     language |-> "en",
     summary |-> <<>>,
     sentiment |-> "neutral",
     topics |-> <<>>,
     words |-> 0,
     readingTime |-> 0,
     difficulty |-> "medium"]

\* const errorResult of the catch block
errorResult(msg) ==
    [ok |-> FALSE,
     error |-> "Failed to summarize the content",
     message |-> msg,
     language |-> "en",
     summary |-> <<>>,
     sentiment |-> "neutral",
     topics |-> <<>>,
     words |-> 0,
     readingTime |-> 0,
     difficulty |-> "medium"]

\* isGeminiConfigValid: a configuration with an apiKey that is not blank
isGeminiConfigValid(config) == config = "valid"

\* Math.min
MathMin(a, b) == IF a < b THEN a ELSE b

\* -------------------------------------------------------------- inputs

MaxPieces == 3
MaxCount == 3
MaxNegativeCount == 1

\* sentenceCount: number = 5
DefaultSentenceCount == 5

\* The documents of the model: up to MaxPieces fragments joined by one space.
\* The empty fragment gives leading, trailing and doubled white space, the
\* lone period gives empty fragments between boundaries.
\*   "Aa bb aa."
\*   a short Arabic sentence with the marker U+064A U+062C U+0628
\*   a long Arabic sentence with a vocalized word, ending in U+061F
Fragments ==
    { <<>>,
      <<Period>>,
      <<65, 97, 32, 98, 98, 32, 97, 97, Period>>,
      <<1610, 1580, 1576, 32, 1593, 1593, Period>>,
      <<1593, 1593, 32, 1593, 1614, 1593, 32, 1593, 1593, 32, 1576, 1576, 32, 1593, 1593,
        32, 1576, 1576, 32, 1593, 1593, ArabicQuestion>> }

RECURSIVE SeqsUpTo(_, _)
SeqsUpTo(S, n) ==
    IF n = 0 THEN {<<>>}
    ELSE LET shorter == SeqsUpTo(S, n - 1)
         IN  shorter \cup {Append(s, x) : s \in {t \in shorter : Len(t) = n - 1}, x \in S}

Texts == {JoinWith(pieces, <<Space>>) : pieces \in SeqsUpTo(Fragments, MaxPieces)}

\* what a caller can pass as text: a string, or a value that is no string
TextKinds == {"string", "null", "undefined", "number"}

Counts == ((0 - MaxNegativeCount)..MaxCount) \cup {DefaultSentenceCount}

\* the entry points: summarizeText, summarizeArabicText (the export behind
\* summarizeArabic) and the summarizeArabicText over libraries
Engines == {"summarizeText", "summarizeArabicText", "summarizeArabicTextLib"}

\* what module load can leave: the optional packages that were found
LoadedChoices(entry) ==
    CASE entry = "summarizeArabicText" ->
            { [loaded |-> {}, tagger |-> "none"],
              [loaded |-> {"arabicNLP", "nodeArabic"}, tagger |-> "all"] }
      [] entry = "summarizeArabicTextLib" ->
            { [loaded |-> {}, tagger |-> "none"],
              [loaded |-> {"arabicStrings", "arabicReshaper"}, tagger |-> "none"] }
      [] OTHER -> { [loaded |-> {}, tagger |-> "none"] }

\* the contents summarize is given: up to MaxContentPieces fragments
MaxContentPieces == 2

Contents == {JoinWith(pieces, <<Space>>) : pieces \in SeqsUpTo(Fragments, MaxContentPieces)}

\* minLength: 100
DefaultMinLength == 100

\* summarizeText(cleanedText, Math.min(finalOptions.sentenceCount, 5))
MaxSentenceCount == 5

\* gemini: null, a configuration whose apiKey is blank, a configuration with a key
GeminiConfigs == {"null", "blankKey", "valid"}

\* const DEFAULT_OPTIONS
DEFAULT_OPTIONS ==
    [sentenceCount |-> DefaultSentenceCount,
     minLength |-> DefaultMinLength,
     responseStructure |-> NoStructure,
     gemini |-> "null",
     useAI |-> FALSE]

MinLengths == {0, DefaultMinLength}

\* the responseStructure values summarize is called with
FacadeStructures ==
    { ArrayStructure(<<"summary">>),
      ObjectStructure(ListOf(<<"summary">>), ListOf(<<"topics">>)),
      ObjectStructure(NoList, ListOf(<<"topics">>)),
      ObjectStructure(NoList, ListOf(<<"ok", "message">>)) }

\* the options of a call: sentenceCount and minLength, and a
\* responseStructure, the AI mode, or both with a configuration that is refused
OptionChoices(entry) ==
    LET plain == {[DEFAULT_OPTIONS EXCEPT !.sentenceCount = k, !.minLength = l] :
                     k \in Counts, l \in MinLengths}
    IN  IF entry = "summarizeSync" THEN plain
        ELSE plain
               \cup {[o EXCEPT !.responseStructure = r] : o \in plain, r \in FacadeStructures}
               \cup {[o EXCEPT !.useAI = TRUE, !.gemini = g] : o \in plain, g \in GeminiConfigs}
               \cup {[o EXCEPT !.useAI = TRUE, !.gemini = "blankKey", !.responseStructure = r] :
                        o \in plain, r \in FacadeStructures}

\* what the AI service can answer: nothing, or more sentences than were asked for
AiReplies ==
    { <<>>,
      <<65, 97, 32, 98, 98, 32, 97, 97, Period, 32, 65, 97, 32, 98, 98, 32, 97, 97, Period>> }

\* the lists and the responseStructure values filterResultFields is called with
FieldLists == {<<>>, <<"summary">>, <<"ok", "topics">>, <<"summary", "nosuch">>}

GivenLists == {NoList} \cup {ListOf(fields) : fields \in FieldLists}

Structures ==
    {ArrayStructure(fields) : fields \in FieldLists}
        \cup {ObjectStructure(inc, exc) : inc \in GivenLists, exc \in GivenLists}

\* the records filterResultFields is called with: a result, an error result,
\* a record without ok
SampleRecords ==
    { SuccessRecord(<<65, 97, Period>>, <<65, 97, Period>>, TRUE),
      errorResult("TypeError"),
      [summary |-> <<>>, topics |-> <<>>] }

NoRecord == [pending |-> TRUE]

NoResponse == [threw |-> FALSE, value |-> NoRecord]

\* --------------------------------------------------------------- state

VARIABLES
    api,              \* the entry point that was called
    textKind,         \* the type of the text argument
    text,             \* the text argument (the empty string when it is no string)
    sentenceCount,    \* the sentenceCount argument
    loaded,           \* the optional packages found at module load
    tagger,           \* what the part-of-speech backend reports
    pc,               \* the stage of the call
    sentences,        \* const sentences
    scoredSentences,  \* const scoredSentences
    topSentences,     \* const topSentences
    outcome,          \* "pending", "returned" or "raised"
    result,           \* the returned string
    caller,           \* "none", or the exported function that was called
    contentKind,      \* the type of the content argument of summarize
    content,          \* the content argument (the empty string when it is no string)
    options,          \* the options argument, undefined fields at their defaults
    stage,            \* the stage of the outer call
    cleanedText,      \* const cleanedText
    summary,          \* let summary
    resultRecord,     \* const result of summarize, the record filterResultFields is given
    message,          \* the message of the error that was thrown
    response,         \* what the outer call hands back
    calls,            \* the summarize calls in flight together, each with its own locals
    token,            \* a token and the language of its sentence
    normalized,       \* the token after each normalization applied so far
    topicsCall,       \* a call of extractTopics: its arguments and what it returned
    tokenization      \* the tokenizing loop of the enhanced scorer: who split each sentence

facade == <<caller, contentKind, content, options, stage, cleanedText, summary,
            resultRecord, message, response>>

NoCalls == <<>>

NoToken == [language |-> "en", text |-> <<>>]

\* a limit argument: a number, or undefined
NoLimit == [given |-> FALSE, value |-> 0]

NoTopicsCall == [fn |-> "none", text |-> <<>>, limit |-> NoLimit, returned |-> FALSE,
                 topics |-> <<>>]

\* the state of the calls in flight together, of the token normalizer and of
\* extractTopics
\* no sentence tokenized yet
NoTokenization == [thrown |-> {}, by |-> <<>>, words |-> <<>>]

separate == <<calls, token, normalized, topicsCall, tokenization>>

vars == <<api, textKind, text, sentenceCount, loaded, tagger, pc, sentences,
          scoredSentences, topSentences, outcome, result, facade, separate>>

inputs == <<api, textKind, text, sentenceCount, loaded, tagger>>

\* no calls in flight together, no token under normalization
NothingSeparate ==
    /\ calls = NoCalls
    /\ token = NoToken
    /\ normalized = <<>>
    /\ topicsCall = NoTopicsCall
    /\ tokenization = NoTokenization

Init ==
    /\ api \in Engines
    /\ \E kind \in TextKinds :
          /\ textKind = kind
          /\ text \in (IF kind = "string" THEN Texts ELSE {<<>>})
    /\ sentenceCount \in Counts
    /\ \E c \in LoadedChoices(api) : loaded = c.loaded /\ tagger = c.tagger
    /\ pc = "Start"
    /\ sentences = <<>>
    /\ scoredSentences = <<>>
    /\ topSentences = <<>>
    /\ outcome = "pending"
    /\ result = <<>>
    /\ caller = "none"
    /\ contentKind = "string"
    /\ content = <<>>
    /\ options = DEFAULT_OPTIONS
    /\ stage = "Idle"
    /\ cleanedText = <<>>
    /\ summary = <<>>
    /\ resultRecord = NoRecord
    /\ message = ""
    /\ response = NoResponse
    /\ NothingSeparate

\* ------------------------------------------------------------- the call

\* !text || typeof text !== 'string' || text.trim().length === 0
IsBlankInput == textKind # "string" \/ Len(Trim(text)) = 0

\* the library summarizer tests isArabic(text) before its try block; a value
\* that is no string has no Arabic character
RejectsInput == api = "summarizeArabicTextLib" /\ (textKind # "string" \/ ~isArabic(text))

Segmenter(t) ==
    IF api = "summarizeArabicTextLib" THEN extractArabicSentences(t) ELSE extractSentences(t)

\* a scorer that hands its sentences back in the opposite order
ScorerReversed(ss) ==
    LET scored == CASE api = "summarizeText" ->
                          IF isArabic(text) THEN scoreArabicSentences(ss)
                          ELSE scoreEnglishSentences(ss)
                    [] api = "summarizeArabicText" ->
                          IF hasAnyArabicLibrary(loaded)
                          THEN scoreArabicSentencesAdvanced(ss, loaded, tagger)
                          ELSE scoreArabicSentencesBasic(ss)
                    [] OTHER -> scoreArabicSentencesLib(ss)
    IN  [i \in 1..Len(scored) |-> scored[Len(scored) + 1 - i]]

Scorer(ss) ==
    CASE api = "summarizeText" ->
            IF isArabic(text) THEN scoreArabicSentences(ss) ELSE scoreEnglishSentences(ss)
      [] api = "summarizeArabicText" ->
            IF hasAnyArabicLibrary(loaded)
            THEN scoreArabicSentencesAdvanced(ss, loaded, tagger)
            ELSE scoreArabicSentencesBasic(ss)
      [] OTHER -> scoreArabicSentencesLib(ss)

\* arabicReshaper.reshape: the letters U+0621..U+064A become presentation forms;
\* the form is contextual in the package, here one form per letter
Reshape(s) == [i \in 1..Len(s) |-> IF s[i] >= 1569 /\ s[i] <= 1610 THEN s[i] + 63488 ELSE s[i]]

\* the empty-input guard of summarizeText and summarizeArabicText
ReturnEmpty ==
    /\ pc = "Start"
    /\ api # "summarizeArabicTextLib"
    /\ IsBlankInput
    /\ pc' = "Empty"
    /\ outcome' = "returned"
    /\ result' = <<>>
    /\ UNCHANGED <<separate, facade, inputs, sentences, scoredSentences, topSentences>>

\* throw new Error('The provided text is not in Arabic')
RaiseNotArabic ==
    /\ pc = "Start"
    /\ RejectsInput
    /\ pc' = "Raised"
    /\ outcome' = "raised"
    /\ UNCHANGED <<separate, facade, inputs, sentences, scoredSentences, topSentences, result>>

CanSegment ==
    /\ pc = "Start"
    /\ IF api = "summarizeArabicTextLib" THEN ~RejectsInput ELSE ~IsBlankInput

Segment ==
    /\ CanSegment
    /\ sentences' = Segmenter(text)
    /\ pc' = "Segmented"
    /\ UNCHANGED <<separate, facade, inputs, scoredSentences, topSentences, outcome, result>>

\* the sentences joined again by one space
JoinedAgain(t, ss) == JoinWith(ss, <<Space>>)

\* return text: the text as it was passed, not the sentences joined again
ShortCircuitResult(t, ss) == t

\* if (sentences.length <= sentenceCount) return text
ShortCircuit ==
    /\ pc = "Segmented"
    /\ Len(sentences) <= sentenceCount
    /\ pc' = "ShortCircuit"
    /\ outcome' = "returned"
    /\ result' = ShortCircuitResult(text, sentences)
    /\ UNCHANGED <<separate, facade, inputs, sentences, scoredSentences, topSentences>>

Score ==
    /\ pc = "Segmented"
    /\ ~(Len(sentences) <= sentenceCount)
    /\ scoredSentences' = Scorer(sentences)
    /\ pc' = "Scored"
    /\ UNCHANGED <<separate, facade, inputs, sentences, topSentences, outcome, result>>

\* a selection that does not wait for the scores
SelectUnscored ==
    /\ pc = "Segmented"
    /\ ~(Len(sentences) <= sentenceCount)
    /\ topSentences' = SelectTop(Scorer(sentences), sentenceCount)
    /\ pc' = "Selected"
    /\ UNCHANGED <<separate, facade, inputs, sentences, scoredSentences, outcome, result>>

Select ==
    /\ pc = "Scored"
    /\ topSentences' = SelectTop(scoredSentences, sentenceCount)
    /\ pc' = "Selected"
    /\ UNCHANGED <<separate, facade, inputs, sentences, scoredSentences, outcome, result>>

Join ==
    /\ pc = "Selected"
    /\ LET joined == JoinSentences(topSentences)
       IN  result' = IF api = "summarizeArabicTextLib" /\ "arabicReshaper" \in loaded
                     THEN Reshape(joined) ELSE joined
    /\ pc' = "Joined"
    /\ outcome' = "returned"
    /\ UNCHANGED <<separate, facade, inputs, sentences, scoredSentences, topSentences>>

\* An error inside the try block: segmentation or scoring throws (a backend
\* that answers with something that is no array, a runtime error).
SegmentThrows ==
    /\ CanSegment
    /\ pc' = "FailedSegment"
    /\ UNCHANGED <<separate, facade, inputs, sentences, scoredSentences, topSentences, outcome, result>>

ScoreThrows ==
    /\ pc = "Segmented"
    /\ ~(Len(sentences) <= sentenceCount)
    /\ pc' = "FailedScore"
    /\ UNCHANGED <<separate, facade, inputs, sentences, scoredSentences, topSentences, outcome, result>>

\* the catch block.  The library summarizer segments again there, outside any
\* try: a segmenter that threw throws again.
FallbackTruncate ==
    /\ pc \in {"FailedSegment", "FailedScore"}
    /\ IF api = "summarizeArabicTextLib"
       THEN IF pc = "FailedSegment"
            THEN /\ outcome' = "raised"
                 /\ pc' = "Raised"
                 /\ UNCHANGED result
            ELSE /\ outcome' = "returned"
                 /\ pc' = "FallbackTruncate"
                 /\ result' = JoinWith(SliceTo(extractArabicSentences(text), sentenceCount),
                                       <<Space>>)
       ELSE /\ outcome' = "returned"
            /\ pc' = "FallbackTruncate"
            /\ result' = FallbackTruncated(text, sentenceCount)
    /\ UNCHANGED <<separate, facade, inputs, sentences, scoredSentences, topSentences>>

Next ==
    \/ ReturnEmpty
    \/ RaiseNotArabic
    \/ Segment
    \/ ShortCircuit
    \/ Score
    \/ Select
    \/ Join
    \/ SegmentThrows
    \/ ScoreThrows
    \/ FallbackTruncate

Spec == Init /\ [][Next]_vars

\* ------------------------------------------------------ the outer calls

\* the two summarize of the repository: the async one with responseStructure
\* and the AI mode ("summarize"), the sync one of src/index.ts ("summarizeSync")
Summarizers == {"summarize", "summarizeSync"}

engine == <<api, textKind, text, sentenceCount, loaded, tagger, pc, sentences,
            scoredSentences, topSentences, outcome, result>>

InitSummarize ==
    /\ caller \in Summarizers \cup {"filterResultFields"}
    /\ IF caller = "filterResultFields"
       THEN /\ contentKind = "string"
            /\ content = <<>>
            /\ \E s \in Structures : options = [DEFAULT_OPTIONS EXCEPT !.responseStructure = s]
            /\ resultRecord \in SampleRecords
       ELSE /\ \E kind \in TextKinds :
                  /\ contentKind = kind
                  /\ content \in (IF kind = "string" THEN Contents ELSE {<<>>})
            /\ options \in OptionChoices(caller)
            /\ resultRecord = NoRecord
    /\ stage = "Called"
    /\ cleanedText = <<>>
    /\ summary = <<>>
    /\ message = ""
    /\ response = NoResponse
    /\ NothingSeparate
    /\ api = "summarizeText"
    /\ textKind = "string"
    /\ text = <<>>
    /\ sentenceCount = 0
    /\ loaded = {}
    /\ tagger = "none"
    /\ pc = "Idle"
    /\ sentences = <<>>
    /\ scoredSentences = <<>>
    /\ topSentences = <<>>
    /\ outcome = "pending"
    /\ result = <<>>

\* const cleanedText = cleanText(content); a content that is no string has no
\* replace method and the call throws a TypeError
Clean ==
    /\ caller \in Summarizers
    /\ stage = "Called"
    /\ IF contentKind = "string"
       THEN /\ cleanedText' = cleanText(content)
            /\ stage' = "Cleaned"
            /\ UNCHANGED message
       ELSE /\ stage' = "Caught"
            /\ message' = "TypeError"
            /\ UNCHANGED cleanedText
    /\ UNCHANGED <<separate, engine, caller, contentKind, content, options, summary, resultRecord, response>>

IsShort == Len(cleanedText) < options.minLength

\* finalOptions.useAI && finalOptions.gemini
WantsAI == caller = "summarize" /\ options.useAI /\ options.gemini # "null"

\* if (cleanedText.length < finalOptions.minLength): summary: cleanedText
ShortContent ==
    /\ stage = "Cleaned"
    /\ IsShort
    /\ summary' = cleanedText
    /\ stage' = "Short"
    /\ UNCHANGED <<separate, engine, caller, contentKind, content, options, cleanedText, resultRecord,
                   message, response>>

\* throw new Error('Invalid Gemini configuration. API key is required.')
RejectGeminiConfig ==
    /\ stage = "Cleaned"
    /\ ~IsShort
    /\ WantsAI
    /\ ~isGeminiConfigValid(options.gemini)
    /\ stage' = "Caught"
    /\ message' = "Invalid Gemini configuration. API key is required."
    /\ UNCHANGED <<separate, engine, caller, contentKind, content, options, cleanedText, summary,
                   resultRecord, response>>

\* await summarizeWithGeminiAI(...)
CallAI ==
    /\ stage = "Cleaned"
    /\ ~IsShort
    /\ WantsAI
    /\ isGeminiConfigValid(options.gemini)
    /\ stage' = "AwaitingAI"
    /\ UNCHANGED <<separate, engine, caller, contentKind, content, options, cleanedText, summary,
                   resultRecord, message, response>>

\* the call summarizeText(cleanedText, count)
StartEngine(count) ==
    /\ api' = "summarizeText"
    /\ textKind' = "string"
    /\ text' = cleanedText
    /\ sentenceCount' = count
    /\ pc' = "Start"
    /\ stage' = "Summarizing"
    /\ UNCHANGED <<separate, loaded, tagger, sentences, scoredSentences, topSentences, outcome, result>>
    /\ UNCHANGED <<caller, contentKind, content, options, cleanedText, summary, resultRecord,
                   message, response>>

\* the promise resolves with the trimmed answer of the service
AiResolves ==
    /\ stage = "AwaitingAI"
    /\ \E reply \in AiReplies : summary' = reply
    /\ stage' = "Summarized"
    /\ UNCHANGED <<separate, engine, caller, contentKind, content, options, cleanedText, resultRecord,
                   message, response>>

\* a rejection of the AI service that reaches the catch block of summarize
AiRejectsCaught ==
    /\ stage = "AwaitingAI"
    /\ stage' = "Caught"
    /\ message' = "Failed to summarize using Gemini AI"
    /\ UNCHANGED <<separate, engine, caller, contentKind, content, options, cleanedText, summary,
                   resultRecord, response>>

\* catch (aiError): summary = summarizeText(cleanedText, finalOptions.sentenceCount)
AiRejects ==
    /\ stage = "AwaitingAI"
    /\ StartEngine(options.sentenceCount)

\* the count handed to summarizeText: as given by the async summarize,
\* Math.min(sentenceCount, 5) by the sync one
EngineCount ==
    IF caller = "summarizeSync"
    THEN MathMin(options.sentenceCount, MaxSentenceCount)
    ELSE options.sentenceCount

CallEngine ==
    /\ stage = "Cleaned"
    /\ ~IsShort
    /\ ~WantsAI
    /\ StartEngine(EngineCount)

\* the sync summarize segments the engine's summary again and keeps the first
\* sentenceCount sentences; the async one takes the summary as it is
SummaryOf(rawSummary) ==
    IF caller = "summarizeSync"
    THEN JoinWith(SliceTo(extractSentences(rawSummary), options.sentenceCount), <<Space>>)
    ELSE rawSummary

EngineReturns ==
    /\ stage = "Summarizing"
    /\ outcome = "returned"
    /\ summary' = SummaryOf(result)
    /\ stage' = "Summarized"
    /\ UNCHANGED <<separate, engine, caller, contentKind, content, options, cleanedText, resultRecord,
                   message, response>>

\* if (finalOptions.responseStructure): only the async summarize has the option
ShapesResponse == caller = "summarize" /\ options.responseStructure.kind # "null"

\* the result record is built and, when asked for, filtered; a filter that
\* throws is caught by the catch block of summarize
Respond ==
    /\ stage \in {"Short", "Summarized"}
    /\ LET built == SuccessRecord(summary, cleanedText, stage = "Short")
           filtered == filterResultFields(built, options.responseStructure)
       IN  /\ resultRecord' = built
           /\ IF ShapesResponse /\ filtered.threw
              THEN /\ stage' = "Caught"
                   /\ message' = ConflictMessage
                   /\ UNCHANGED response
              ELSE /\ stage' = "Done"
                   /\ response' = IF ShapesResponse THEN filtered
                                  ELSE [threw |-> FALSE, value |-> built]
                   /\ UNCHANGED message
    /\ UNCHANGED <<separate, engine, caller, contentKind, content, options, cleanedText, summary>>

\* the catch block: the error result, filtered when options.responseStructure
\* is given; a filter that throws again adds its message
Catch ==
    /\ stage = "Caught"
    /\ LET filtered == filterResultFields(errorResult(message), options.responseStructure)
       IN  response' =
             IF ~ShapesResponse THEN [threw |-> FALSE, value |-> errorResult(message)]
             ELSE IF filtered.threw
             THEN [threw |-> FALSE,
                   value |-> errorResult(message \o ". Additionally: " \o ConflictMessage)]
             ELSE filtered
    /\ stage' = "Done"
    /\ UNCHANGED <<separate, engine, caller, contentKind, content, options, cleanedText, summary,
                   resultRecord, message>>

\* a call of filterResultFields itself
Filter ==
    /\ caller = "filterResultFields"
    /\ stage = "Called"
    /\ response' = filterResultFields(resultRecord, options.responseStructure)
    /\ stage' = "Done"
    /\ UNCHANGED <<separate, engine, caller, contentKind, content, options, cleanedText, summary,
                   resultRecord, message>>

NextSummarize ==
    \/ Clean
    \/ ShortContent
    \/ RejectGeminiConfig
    \/ CallAI
    \/ AiResolves
    \/ AiRejects
    \/ CallEngine
    \/ ReturnEmpty
    \/ Segment
    \/ ShortCircuit
    \/ Score
    \/ Select
    \/ Join
    \/ SegmentThrows
    \/ ScoreThrows
    \/ FallbackTruncate
    \/ EngineReturns
    \/ Respond
    \/ Catch
    \/ Filter

SpecSummarize == InitSummarize /\ [][NextSummarize]_vars

\* --------------------------------------------- one sentence, repeated

MaxRepeat == 11

\* "Aa bb aa."  "aa bb."  "a b c."  "aa bb cc dd."
RepeatSentences ==
    { <<65, 97, 32, 98, 98, 32, 97, 97, Period>>,
      <<97, 97, 32, 98, 98, Period>>,
      <<97, 32, 98, 32, 99, Period>>,
      <<97, 97, 32, 98, 98, 32, 99, 99, 32, 100, 100, Period>> }

RepeatText(base, n) == JoinWith([i \in 1..n |-> base], <<Space>>)

\* summarizeText(text, 2) for a text that repeats one sentence three times or more
InitRepeat ==
    /\ api = "summarizeText"
    /\ textKind = "string"
    /\ \E base \in RepeatSentences, n \in 3..MaxRepeat : text = RepeatText(base, n)
    /\ sentenceCount = 2
    /\ loaded = {}
    /\ tagger = "none"
    /\ pc = "Start"
    /\ sentences = <<>>
    /\ scoredSentences = <<>>
    /\ topSentences = <<>>
    /\ outcome = "pending"
    /\ result = <<>>
    /\ caller = "none"
    /\ contentKind = "string"
    /\ content = <<>>
    /\ options = DEFAULT_OPTIONS
    /\ stage = "Idle"
    /\ cleanedText = <<>>
    /\ summary = <<>>
    /\ resultRecord = NoRecord
    /\ message = ""
    /\ response = NoResponse
    /\ NothingSeparate

\* a call in which nothing throws
NextRepeat ==
    \/ Segment
    \/ Score
    \/ Select
    \/ Join

SpecRepeat == InitRepeat /\ [][NextRepeat]_vars

\* ------------------------------------------------- token normalization
\* The normalization of a token, applied again to its own result: toLowerCase
\* for the words of an English sentence, normalize('NFD') and the removal of
\* the diacritics for the words of an Arabic one.

MaxTokenLength == 3

MaxNormalizations == 2

\* A, a, the letter ain, fatha, alef with madda above (which decomposes into
\* alef and the combining madda), superscript alef
TokenAlphabet == {65, 97, 1593, 1614, 1570, 1648}

Tokens == SeqsUpTo(TokenAlphabet, MaxTokenLength)

NormalizeToken(language, w) ==
    IF language = "en" THEN ToLowerCase(w) ELSE normalizedWord(w)

\* no engine call and no outer call is under way
EngineIdle ==
    /\ api = "summarizeText"
    /\ textKind = "string"
    /\ text = <<>>
    /\ sentenceCount = 0
    /\ loaded = {}
    /\ tagger = "none"
    /\ pc = "Idle"
    /\ sentences = <<>>
    /\ scoredSentences = <<>>
    /\ topSentences = <<>>
    /\ outcome = "pending"
    /\ result = <<>>

FacadeIdle ==
    /\ caller = "none"
    /\ contentKind = "string"
    /\ content = <<>>
    /\ options = DEFAULT_OPTIONS
    /\ stage = "Idle"
    /\ cleanedText = <<>>
    /\ summary = <<>>
    /\ resultRecord = NoRecord
    /\ message = ""
    /\ response = NoResponse

InitNormalize ==
    /\ EngineIdle
    /\ FacadeIdle
    /\ calls = NoCalls
    /\ \E language \in {"en", "ar"}, w \in Tokens : token = [language |-> language, text |-> w]
    /\ normalized = <<>>
    /\ topicsCall = NoTopicsCall
    /\ tokenization = NoTokenization

\* the token is normalized
Normalize ==
    /\ normalized = <<>>
    /\ Len(token.text) > 0
    /\ normalized' = <<NormalizeToken(token.language, token.text)>>
    /\ UNCHANGED <<engine, facade, calls, token, topicsCall, tokenization>>

\* the normalized token is normalized again
NormalizeAgain ==
    /\ normalized # <<>>
    /\ Len(normalized) < MaxNormalizations
    /\ normalized' =
          Append(normalized, NormalizeToken(token.language, normalized[Len(normalized)]))
    /\ UNCHANGED <<engine, facade, calls, token, topicsCall, tokenization>>

NextNormalize ==
    \/ Normalize
    \/ NormalizeAgain

SpecNormalize == InitNormalize /\ [][NextNormalize]_vars

\* ---------------------------------------------------------------- topics
\* extractTopics, in its two copies: the one of extractors/topicExtractor.ts and
\* the one the package exports (utils/topicExtraction, held in
\* analyzers/sentimentAnalyzer.ts).

\* const commonEnglishTopics: Technology, Science, Health, Politics, Business, Economy,
\* Entertainment, Sports, Education, Environment, Art, Music, Food, Travel, Fashion,
\* Lifestyle, Religion, History, JavaScript, Programming, Web, Development, Software,
\* Data, AI, Machine Learning, Blockchain, Cryptocurrency, Finance
commonEnglishTopics ==
    << <<84, 101, 99, 104, 110, 111, 108, 111, 103, 121>>,
       <<83, 99, 105, 101, 110, 99, 101>>,
       <<72, 101, 97, 108, 116, 104>>,
       <<80, 111, 108, 105, 116, 105, 99, 115>>,
       <<66, 117, 115, 105, 110, 101, 115, 115>>,
       <<69, 99, 111, 110, 111, 109, 121>>,
       <<69, 110, 116, 101, 114, 116, 97, 105, 110, 109, 101, 110, 116>>,
       <<83, 112, 111, 114, 116, 115>>,
       <<69, 100, 117, 99, 97, 116, 105, 111, 110>>,
       <<69, 110, 118, 105, 114, 111, 110, 109, 101, 110, 116>>,
       <<65, 114, 116>>,
       <<77, 117, 115, 105, 99>>,
       <<70, 111, 111, 100>>,
       <<84, 114, 97, 118, 101, 108>>,
       <<70, 97, 115, 104, 105, 111, 110>>,
       <<76, 105, 102, 101, 115, 116, 121, 108, 101>>,
       <<82, 101, 108, 105, 103, 105, 111, 110>>,
       <<72, 105, 115, 116, 111, 114, 121>>,
       <<74, 97, 118, 97, 83, 99, 114, 105, 112, 116>>,
       <<80, 114, 111, 103, 114, 97, 109, 109, 105, 110, 103>>,
       <<87, 101, 98>>,
       <<68, 101, 118, 101, 108, 111, 112, 109, 101, 110, 116>>,
       <<83, 111, 102, 116, 119, 97, 114, 101>>,
       <<68, 97, 116, 97>>,
       <<65, 73>>,
       <<77, 97, 99, 104, 105, 110, 101, 32, 76, 101, 97, 114, 110, 105, 110, 103>>,
       <<66, 108, 111, 99, 107, 99, 104, 97, 105, 110>>,
       <<67, 114, 121, 112, 116, 111, 99, 117, 114, 114, 101, 110, 99, 121>>,
       <<70, 105, 110, 97, 110, 99, 101>> >>

\* const commonArabicTopics, by code point
commonArabicTopics ==
    << <<1578, 1603, 1606, 1608, 1604, 1608, 1580, 1610, 1575>>,
       <<1593, 1604, 1608, 1605>>,
       <<1589, 1581, 1577>>,
       <<1587, 1610, 1575, 1587, 1577>>,
       <<1571, 1593, 1605, 1575, 1604>>,
       <<1575, 1602, 1578, 1589, 1575, 1583>>,
       <<1578, 1585, 1601, 1610, 1607>>,
       <<1585, 1610, 1575, 1590, 1577>>,
       <<1578, 1593, 1604, 1610, 1605>>,
       <<1576, 1610, 1574, 1577>>,
       <<1601, 1606>>,
       <<1605, 1608, 1587, 1610, 1602, 1609>>,
       <<1591, 1593, 1575, 1605>>,
       <<1587, 1601, 1585>>,
       <<1571, 1586, 1610, 1575, 1569>>,
       <<1606, 1605, 1591, 32, 1575, 1604, 1581, 1610, 1575, 1577>>,
       <<1583, 1610, 1606>>,
       <<1578, 1575, 1585, 1610, 1582>>,
       <<1580, 1575, 1601, 1575, 1587, 1603, 1585, 1610, 1576, 1578>>,
       <<1576, 1585, 1605, 1580, 1577>>,
       <<1608, 1610, 1576>>,
       <<1578, 1591, 1608, 1610, 1585>>,
       <<1576, 1585, 1605, 1580, 1610, 1575, 1578>>,
       <<1576, 1610, 1575, 1606, 1575, 1578>>,
       <<1584, 1603, 1575, 1569, 32, 1575, 1589, 1591, 1606, 1575, 1593, 1610>>,
       <<1578, 1593, 1604, 1605, 32, 1570, 1604, 1610>>,
       <<1576, 1604, 1608, 1603, 1578, 1588, 1610, 1606>>,
       <<1593, 1605, 1604, 1575, 1578, 32, 1585, 1602, 1605, 1610, 1577>>,
       <<1605, 1575, 1604, 1610, 1577>> >>

DefaultTopicLimit == 5

GivenLimit(n) == [given |-> TRUE, value |-> n]

\* relevantTopics.filter(topic => lowerText.includes(topic.toLowerCase()))
foundTopics(t) ==
    LET relevantTopics == IF isArabic(t) THEN commonArabicTopics ELSE commonEnglishTopics
        lowerText == ToLowerCase(t)
    IN  SelectSeq(relevantTopics, LAMBDA topic : Includes(lowerText, ToLowerCase(topic)))

\* extractTopics(text, limit = 5) of extractors/topicExtractor.ts
extractTopics(t, limit) ==
    IF Len(Trim(t)) = 0 THEN <<>>
    ELSE SliceTo(foundTopics(t), IF limit.given THEN limit.value ELSE DefaultTopicLimit)

\* extractTopics(text, limit?) of utils/topicExtraction: topicLimit = limit || 5
extractTopicsUtil(t, limit) ==
    LET topicLimit == IF limit.given /\ limit.value # 0 THEN limit.value
                      ELSE DefaultTopicLimit
    IN  IF Len(Trim(t)) = 0 THEN <<>>
        ELSE SliceTo(foundTopics(t), topicLimit)

MaxTopicPieces == 3

MaxLimit == 3

\* "Web DATA", "art AI Music", "javascript", "xyz", two Arabic topics (U+0639
\* U+0644 U+0648 U+0645 and U+0641 U+0646), and the empty string
TopicFragments ==
    { <<87, 101, 98, 32, 68, 65, 84, 65>>,
      <<97, 114, 116, 32, 65, 73, 32, 77, 117, 115, 105, 99>>,
      <<106, 97, 118, 97, 115, 99, 114, 105, 112, 116>>,
      <<120, 121, 122>>,
      <<1593, 1604, 1608, 1605, 32, 1601, 1606>>,
      <<>> }

TopicTexts == {JoinWith(pieces, <<Space>>) : pieces \in SeqsUpTo(TopicFragments, MaxTopicPieces)}

Limits == {NoLimit} \cup {GivenLimit(n) : n \in 0..MaxLimit}

InitTopics ==
    /\ EngineIdle
    /\ FacadeIdle
    /\ calls = NoCalls
    /\ token = NoToken
    /\ normalized = <<>>
    /\ tokenization = NoTokenization
    /\ \E fn \in {"extractTopics", "extractTopicsUtil"}, t \in TopicTexts, limit \in Limits :
          topicsCall = [fn |-> fn, text |-> t, limit |-> limit, returned |-> FALSE,
                        topics |-> <<>>]

\* the call runs and returns its topics
ReturnTopics ==
    /\ topicsCall.fn # "none"
    /\ ~topicsCall.returned
    /\ topicsCall' =
          [topicsCall EXCEPT
              !.returned = TRUE,
              !.topics = IF topicsCall.fn = "extractTopics"
                         THEN extractTopics(topicsCall.text, topicsCall.limit)
                         ELSE extractTopicsUtil(topicsCall.text, topicsCall.limit)]
    /\ UNCHANGED <<engine, facade, calls, token, normalized, tokenization>>

NextTopics == ReturnTopics

SpecTopics == InitTopics /\ [][NextTopics]_vars

\* ------------------------------------------------ calls in flight together
\* Several calls of the async summarize.  A call runs without interruption from
\* its entry to the await of the AI service, or to its return when it does not
\* reach the await; it resumes when the promise settles.  cleanedText,
\* finalOptions and summary are locals of the call, the word-frequency table and
\* the sentence lists are locals of the scorer the call runs.

MaxCalls == 2

CallIds == 1..MaxCalls

\* "Aa bb aa. ." and two Arabic sentences, the first with a vocalized word
ConcurrentContents ==
    { <<65, 97, 32, 98, 98, 32, 97, 97, Period, 32, Period>>,
      <<1593, 1593, 32, 1593, 1614, 1593, 32, 1593, 1593, 32, 1576, 1576, 32, 1593, 1593,
        32, 1576, 1576, 32, 1593, 1593, ArabicQuestion, 32,
        1610, 1580, 1576, 32, 1593, 1593, Period>> }

\* one sentence is asked for, of a content of any length; without the AI
\* mode, or with it and each of the configurations
ConcurrentOptions ==
    LET base == [DEFAULT_OPTIONS EXCEPT !.sentenceCount = 1, !.minLength = 0]
    IN  {base} \cup {[base EXCEPT !.useAI = TRUE, !.gemini = g] : g \in GeminiConfigs}

\* the promise of summarizeWithGeminiAI: not created, pending, resolved with a
\* reply or rejected
NotAsked == [kind |-> "none", reply |-> <<>>]

\* summarizeText(text, sentenceCount) when nothing throws
summarizeTextValue(t, k) ==
    IF Len(Trim(t)) = 0 THEN <<>>
    ELSE LET ss == extractSentences(t)
         IN  IF Len(ss) <= k THEN t
             ELSE JoinSentences(SelectTop(IF isArabic(t) THEN scoreArabicSentences(ss)
                                          ELSE scoreEnglishSentences(ss), k))

\* summarize from its entry to the await or to its return
BeforeAwait(c, o) ==
    LET cleaned == cleanText(c)
    IN  IF Len(cleaned) < o.minLength
        THEN [stage |-> "Done", cleanedText |-> cleaned,
              response |-> SuccessRecord(cleaned, cleaned, TRUE)]
        ELSE IF o.useAI /\ o.gemini # "null"
             THEN IF isGeminiConfigValid(o.gemini)
                  THEN [stage |-> "AwaitingAI", cleanedText |-> cleaned, response |-> NoRecord]
                  ELSE [stage |-> "Done", cleanedText |-> cleaned,
                        response |->
                            errorResult("Invalid Gemini configuration. API key is required.")]
             ELSE [stage |-> "Done", cleanedText |-> cleaned,
                   response |->
                       SuccessRecord(summarizeTextValue(cleaned, o.sentenceCount), cleaned, FALSE)]

\* summarize from the settled promise to its return: the reply, or on a
\* rejection summarizeText(cleanedText, finalOptions.sentenceCount)
AfterAwait(cleaned, o, ai) ==
    LET summaryText == IF ai.kind = "resolved" THEN ai.reply
                       ELSE summarizeTextValue(cleaned, o.sentenceCount)
    IN  SuccessRecord(summaryText, cleaned, FALSE)

\* locals read from the call that started first
LocalsOfFirstCall(id) == calls[1]

\* the locals a resumed call reads: its own
Locals(id) == calls[id]

InitConcurrent ==
    /\ EngineIdle
    /\ FacadeIdle
    /\ token = NoToken
    /\ normalized = <<>>
    /\ topicsCall = NoTopicsCall
    /\ tokenization = NoTokenization
    /\ calls \in [CallIds -> {[content |-> c, options |-> o, stage |-> "Called",
                               cleanedText |-> <<>>, ai |-> NotAsked, response |-> NoRecord,
                               resumedBeside |-> {}] :
                                  c \in ConcurrentContents, o \in ConcurrentOptions}]

\* the call runs to the await, or to its return
RunToAwait(id) ==
    /\ calls[id].stage = "Called"
    /\ LET first == BeforeAwait(calls[id].content, calls[id].options)
       IN  calls' = [calls EXCEPT ![id].stage = first.stage,
                                  ![id].cleanedText = first.cleanedText,
                                  ![id].ai = IF first.stage = "AwaitingAI"
                                             THEN [kind |-> "pending", reply |-> <<>>]
                                             ELSE NotAsked,
                                  ![id].response = first.response]
    /\ UNCHANGED <<engine, facade, token, normalized, topicsCall, tokenization>>

\* the promise has settled and the call resumes; resumedBeside keeps which
\* other calls were suspended at their await at that moment
Resume(id, ai) ==
    /\ calls[id].stage = "AwaitingAI"
    /\ calls' = [calls EXCEPT
                    ![id].stage = "Done",
                    ![id].ai = ai,
                    ![id].response = AfterAwait(Locals(id).cleanedText, Locals(id).options, ai),
                    ![id].resumedBeside =
                        {d \in CallIds \ {id} : calls[d].stage = "AwaitingAI"}]
    /\ UNCHANGED <<engine, facade, token, normalized, topicsCall, tokenization>>

ResumeResolved(id) == \E reply \in AiReplies : Resume(id, [kind |-> "resolved", reply |-> reply])

ResumeRejected(id) == Resume(id, [kind |-> "rejected", reply |-> <<>>])

NextConcurrent ==
    \E id \in CallIds :
        \/ RunToAwait(id)
        \/ ResumeResolved(id)
        \/ ResumeRejected(id)

SpecConcurrent == InitConcurrent /\ [][NextConcurrent]_vars

\* ------------------------------------------------------ scoring alone
\* The engines on texts made for the scorers: sentences with words of one
\* letter, with one and with two markers, with fewer words than the minimum.
\* sentenceCount is 0, so every text with a sentence is scored.

MaxScorePieces == 3

\* "a b must."  "a aa bb cc."  "cc dd."
\* waw and the marker U+064A U+062C U+0628; a sentence of 22 units with that
\* marker and the marker U+0645 U+0647 U+0645; waw and two words without marker
ScoreFragments ==
    { <<97, 32, 98, 32, 109, 117, 115, 116, Period>>,
      <<97, 32, 97, 97, 32, 98, 98, 32, 99, 99, Period>>,
      <<99, 99, 32, 100, 100, Period>>,
      <<1608, 32, 1610, 1580, 1576, Period>>,
      <<1610, 1580, 1576, 32, 1605, 1607, 1605, 32, 1593, 1593, 32, 1576, 1576, 32, 1593, 1593, 32, 1576, 1576, 32, 1593, 1593, Period>>,
      <<1608, 32, 1593, 1593, 32, 1576, 1576, Period>> }

ScoreTexts ==
    {JoinWith(pieces, <<Space>>) :
        pieces \in {p \in SeqsUpTo(ScoreFragments, MaxScorePieces) : Len(p) > 0}}

InitScore ==
    /\ api \in Engines
    /\ textKind = "string"
    /\ text \in ScoreTexts
    /\ sentenceCount = 0
    /\ \E c \in LoadedChoices(api) : loaded = c.loaded /\ tagger = c.tagger
    /\ pc = "Start"
    /\ sentences = <<>>
    /\ scoredSentences = <<>>
    /\ topSentences = <<>>
    /\ outcome = "pending"
    /\ result = <<>>
    /\ FacadeIdle
    /\ NothingSeparate

NextScore ==
    \/ Segment
    \/ Score

SpecScore == InitScore /\ [][NextScore]_vars

\* ------------------------------------------------- the tokenizing loop
\* The enhanced scorers split the sentences one after the other, each call of
\* the backend in a try of its own: scoreArabicSentencesAdvanced with the first
\* package that was found, calculateArabicWordFrequencies with arabicStrings.
\* The backend is an external package: on each sentence it answers or throws.
\* In the model a backend that answers splits on white space, as the catch
\* does, so the scores are those of Score; tokenization records who split
\* which sentence.

MaxTokenizePieces == 3

TokenizeTexts ==
    {JoinWith(pieces, <<Space>>) :
        pieces \in {p \in SeqsUpTo({f \in ScoreFragments : isArabic(f)}, MaxTokenizePieces) :
                        Len(p) > 0}}

\* after a first failure the backend is given up
TokenizerAfterFailure(idx, thrown) ==
    IF \E j \in thrown : j <= idx THEN "whitespace" ELSE "backend"

\* try { words = backend(sentence) } catch (e) { words = sentence.split(/\s+/) }
TokenizerFor(idx, thrown) == IF idx \in thrown THEN "whitespace" ELSE "backend"

InitTokenize ==
    /\ api \in {"summarizeArabicText", "summarizeArabicTextLib"}
    /\ textKind = "string"
    /\ text \in TokenizeTexts
    /\ sentenceCount = 0
    /\ \E c \in {d \in LoadedChoices(api) : d.loaded # {}} :
          loaded = c.loaded /\ tagger = c.tagger
    /\ pc = "Start"
    /\ sentences = <<>>
    /\ scoredSentences = <<>>
    /\ topSentences = <<>>
    /\ outcome = "pending"
    /\ result = <<>>
    /\ FacadeIdle
    /\ NothingSeparate

\* the loop is at a sentence
AtSentence ==
    /\ pc = "Segmented"
    /\ ~(Len(sentences) <= sentenceCount)
    /\ Len(tokenization.by) < Len(sentences)

\* the sentence of the loop is split, the backend having thrown on the
\* sentences of thrown
SplitSentence(thrown) ==
    LET idx == Len(tokenization.by) + 1
        by == TokenizerFor(idx, thrown)
    IN  [thrown |-> thrown,
         by |-> Append(tokenization.by, by),
         words |-> Append(tokenization.words,
                          IF by = "backend" THEN BackendTokens(sentences[idx])
                          ELSE Split("space", sentences[idx]))]

\* the backend answers
TokenizeByBackend ==
    /\ AtSentence
    /\ tokenization' = SplitSentence(tokenization.thrown)
    /\ UNCHANGED <<engine, facade, calls, token, normalized, topicsCall>>

\* the backend throws, the catch splits on white space
BackendThrows ==
    /\ AtSentence
    /\ tokenization' = SplitSentence(tokenization.thrown \cup {Len(tokenization.by) + 1})
    /\ UNCHANGED <<engine, facade, calls, token, normalized, topicsCall>>

\* the loop is over: the sentences are scored
ScoreTokenized ==
    /\ pc = "Segmented"
    /\ ~(Len(sentences) <= sentenceCount)
    /\ Len(tokenization.by) = Len(sentences)
    /\ scoredSentences' = Scorer(sentences)
    /\ pc' = "Scored"
    /\ UNCHANGED <<separate, facade, inputs, sentences, topSentences, outcome, result>>

NextTokenize ==
    \/ Segment
    \/ TokenizeByBackend
    \/ BackendThrows
    \/ ScoreTokenized

SpecTokenize == InitTokenize /\ [][NextTokenize]_vars

\* ----------------------------------------------------------- module load
\* The module of summarizeArabicText requires its four optional packages when
\* it is loaded, each require in a try of its own with an empty catch; a
\* package is external, so each require finds it or throws.  After the load
\* the module serves calls of summarizeArabicText, one after the other.

OptionalPackages == <<"arabicNLP", "nodeArabic", "arabicWordnet", "arWordTokenizer">>

LoadPositions == <<"LoadArabicNLP", "LoadNodeArabic", "LoadArabicWordnet", "LoadArWordTokenizer">>

\* the require the module load is at (0 when the module is loaded)
LoadingAt ==
    IF \E k \in 1..Len(LoadPositions) : LoadPositions[k] = pc
    THEN CHOOSE k \in 1..Len(LoadPositions) : LoadPositions[k] = pc
    ELSE 0

\* the position after the try of require k
AfterRequire(k) == IF k < Len(LoadPositions) THEN LoadPositions[k + 1] ELSE "Loaded"

InitLoad ==
    /\ api = "summarizeArabicText"
    /\ textKind = "string"
    /\ text = <<>>
    /\ sentenceCount = 1
    /\ loaded = {}
    /\ tagger \in {"none", "all"}
    /\ pc = LoadPositions[1]
    /\ sentences = <<>>
    /\ scoredSentences = <<>>
    /\ topSentences = <<>>
    /\ outcome = "pending"
    /\ result = <<>>
    /\ FacadeIdle
    /\ NothingSeparate

\* try { arabicNLP = require('arabic-nlp') } and the three like it
RequireFound ==
    /\ LoadingAt > 0
    /\ loaded' = loaded \cup {OptionalPackages[LoadingAt]}
    /\ pc' = AfterRequire(LoadingAt)
    /\ UNCHANGED <<separate, facade, api, textKind, text, sentenceCount, tagger,
                   sentences, scoredSentences, topSentences, outcome, result>>

\* catch (error) { } : the variable stays null
RequireThrows ==
    /\ LoadingAt > 0
    /\ pc' = AfterRequire(LoadingAt)
    /\ UNCHANGED <<separate, facade, inputs, sentences, scoredSentences, topSentences,
                   outcome, result>>

\* the loaded module is called, for the first time or again
Call ==
    /\ pc \in {"Loaded", "ShortCircuit", "Joined"}
    /\ text' \in TokenizeTexts
    /\ pc' = "Start"
    /\ sentences' = <<>>
    /\ scoredSentences' = <<>>
    /\ topSentences' = <<>>
    /\ outcome' = "pending"
    /\ result' = <<>>
    /\ UNCHANGED <<separate, facade, api, textKind, sentenceCount, loaded, tagger>>

NextLoad ==
    \/ RequireFound
    \/ RequireThrows
    \/ Segment
    \/ ShortCircuit
    \/ Score
    \/ Select
    \/ Join
    \/ Call

SpecLoad == InitLoad /\ [][NextLoad]_vars

\* ------------------------------------------------- a call to its return
\* One call of summarizeText or of summarizeArabicText, from its entry to its
\* return.  The call is synchronous and nothing suspends it: a step is taken
\* as long as one is possible.

MaxPathPieces == 2
MaxPathCount == 2

\* the empty text, ".", "Aa bb aa.", and a short Arabic sentence
PathFragments ==
    { <<>>,
      <<Period>>,
      <<65, 97, 32, 98, 98, 32, 97, 97, Period>>,
      <<1610, 1580, 1576, 32, 1593, 1593, Period>> }

PathTexts == {JoinWith(pieces, <<Space>>) : pieces \in SeqsUpTo(PathFragments, MaxPathPieces)}

InitPaths ==
    /\ api \in {"summarizeText", "summarizeArabicText"}
    /\ \E kind \in TextKinds :
          /\ textKind = kind
          /\ text \in (IF kind = "string" THEN PathTexts ELSE {<<>>})
    /\ sentenceCount \in 0..MaxPathCount
    /\ \E c \in LoadedChoices(api) : loaded = c.loaded /\ tagger = c.tagger
    /\ pc = "Start"
    /\ sentences = <<>>
    /\ scoredSentences = <<>>
    /\ topSentences = <<>>
    /\ outcome = "pending"
    /\ result = <<>>
    /\ FacadeIdle
    /\ NothingSeparate

NextPaths ==
    \/ ReturnEmpty
    \/ Segment
    \/ ShortCircuit
    \/ Score
    \/ Select
    \/ Join
    \/ SegmentThrows
    \/ ScoreThrows
    \/ FallbackTruncate

\* the steps that compute: segmentation, scoring, selection, joining, fallback
Computes == Segment \/ Score \/ Select \/ Join \/ FallbackTruncate

\* ENABLED <<Computes>>_vars, from the guards of those steps (each of them
\* moves pc)
CanCompute ==
    \/ CanSegment
    \/ pc = "Segmented" /\ ~(Len(sentences) <= sentenceCount)
    \/ pc \in {"Scored", "Selected", "FailedSegment", "FailedScore"}

\* WF_vars(Computes), written with CanCompute for its ENABLED
ComputesInTheEnd == []<>(~CanCompute) \/ []<><<Computes>>_vars

SpecPaths ==
    /\ InitPaths /\ [][NextPaths]_vars
    /\ WF_vars(ReturnEmpty) /\ WF_vars(ShortCircuit)
    /\ ComputesInTheEnd

\* -------------------------------------------------------------- claims

OnScoredPath == pc \in {"Selected", "Joined"}

NamedEngines == {"summarizeText", "summarizeArabicText"}

\* the sentences of the input at the selected indices, in the selected order
SelectedTexts == [i \in 1..Len(topSentences) |-> sentences[topSentences[i].index + 1]]

IsSelected(x) == \E i \in 1..Len(topSentences) : topSentences[i].index = x

\* C1: on the scored-and-selected path the selected sentences are in strictly
\* increasing order of their index in the text, whatever their scores, and the
\* summary summarizeText and summarizeArabicText return joins them in that order.
C1_DocumentOrder ==
    OnScoredPath =>
        /\ \A i, j \in 1..Len(topSentences) :
              i < j => topSentences[i].index < topSentences[j].index
        /\ (pc = "Joined" /\ api \in NamedEngines) =>
              result = JoinWith(SelectedTexts, <<Space>>)

\* a summary of two sentences or more where a later sentence outscores an
\* earlier one: the score order is not the order of the text
C1_Witness ==
    /\ pc = "Joined"
    /\ api \in NamedEngines
    /\ Len(topSentences) >= 2
    /\ \E i, j \in 1..Len(scoredSentences) :
          /\ i < j
          /\ IsSelected(i - 1)
          /\ IsSelected(j - 1)
          /\ ScoreLess(scoredSentences[i].score, scoredSentences[j].score)

C4_NeverRaisesAndTruncates ==
    /\ outcome # "raised"
    /\ pc = "FallbackTruncate" =>
          LET truncated == JoinWith(SliceTo(Split("period", text), sentenceCount), <<Period>>)
          IN  result = IF truncated # <<>> THEN truncated ELSE text

\* C5 as stated: a text that is empty, only white space or no string makes the
\* engine return the empty string, and nothing is raised.
C5_BlankReturnsEmpty ==
    (IsBlankInput /\ pc # "Start") => (outcome = "returned" /\ result = <<>>)

C8_ExactlyKSentences ==
    ( /\ pc = "Joined"
      /\ api \in NamedEngines
      /\ sentenceCount >= 1
      /\ Len(Segmenter(text)) > sentenceCount ) =>
        /\ Len(topSentences) = sentenceCount
        /\ \A i \in 1..Len(topSentences) :
              /\ topSentences[i].index \in 0..(Len(sentences) - 1)
              /\ topSentences[i].text = Segmenter(text)[topSentences[i].index + 1]
        /\ \A i, j \in 1..Len(topSentences) :
              i # j => topSentences[i].index # topSentences[j].index
        /\ result = JoinWith(SelectedTexts, <<Space>>)

\* a summary of two sentences out of three or more
C8_Witness ==
    /\ pc = "Joined"
    /\ api \in NamedEngines
    /\ sentenceCount >= 2
    /\ Len(sentences) > sentenceCount
    /\ Len(topSentences) = sentenceCount

\* C9 as stated, for a text that is not blank and a sentenceCount of 1 or more:
\* the returned string is empty only if the text segments into no sentence.
C9_EmptyOnlyWithoutSentences ==
    ( /\ outcome = "returned"
      /\ ~IsBlankInput
      /\ sentenceCount >= 1
      /\ result = <<>> ) => Len(Segmenter(text)) = 0

\* result.summary.split(/[.!?]+/).filter(Boolean).length, the count of the test
CountSentences(s) == Len(FilterBoolean(Split("marks", s)))

\* C2 as stated, the AI mode left aside: for a sentenceCount of 1 or more in
\* the options, the summary of the result of summarize has at most
\* sentenceCount sentences, counted as the test counts them.
C2_AtMostKSentences ==
    ( /\ caller \in Summarizers
      /\ stage = "Done"
      /\ ~options.useAI
      /\ options.sentenceCount >= 1
      /\ "summary" \in Keys(response.value) ) =>
        CountSentences(response.value.summary) <= options.sentenceCount

\* the words the English scorer sees in a sentence
WordsOf(sentence) == MatchWords(ToLowerCase(sentence))

RepeatIndices(n) == <<0, n - 1>>

C10_BothListsRaise ==
    ( /\ stage = "Done"
      /\ options.responseStructure.kind = "object"
      /\ options.responseStructure.include.present
      /\ options.responseStructure.exclude.present ) =>
        /\ caller = "filterResultFields" => response.threw
        /\ caller = "summarize" =>
              /\ response.value.ok = FALSE
              /\ Keys(response.value) = Keys(errorResult(""))

\* a call of filterResultFields with two empty lists that has thrown
C10_Witness ==
    /\ caller = "filterResultFields"
    /\ stage = "Done"
    /\ options.responseStructure.kind = "object"
    /\ options.responseStructure.include = ListOf(<<>>)
    /\ options.responseStructure.exclude = ListOf(<<>>)
    /\ response.threw

\* the fields an inclusion list keeps of a record: the listed fields the
\* record has, and ok when the record has it
ExpectedIncluded(record, fields) ==
    (Listed(fields) \cap Keys(record)) \cup ({"ok"} \cap Keys(record))

\* the inclusion list of a responseStructure: the array, or the include list
\* of an object that has no exclude list
IsInclusion(structure) ==
    \/ structure.kind = "array"
    \/ structure.kind = "object" /\ structure.include.present /\ ~structure.exclude.present

InclusionList(structure) ==
    IF structure.kind = "array" THEN structure.list ELSE structure.include.list

ErrorFields ==
    {"ok", "error", "message", "language", "summary", "sentiment", "topics", "words",
     "readingTime", "difficulty"}

\* an error was thrown and caught while the call was processed
ErrorWasCaught == caller \in Summarizers /\ stage = "Done" /\ message # ""

\* the responseStructure is an exclude list that names the field
Excludes(structure, field) ==
    /\ structure.kind = "object"
    /\ ~structure.include.present
    /\ structure.exclude.present
    /\ field \in Listed(structure.exclude.list)

\* the responseStructure leaves the field of the error result in place: no
\* structure, a conflicting one (the filter throws and the error result comes
\* back whole), an inclusion list that names the field (ok needs no naming), or
\* an exclude list that does not name it
Keeps(structure, field) ==
    \/ structure.kind = "null"
    \/ structure.kind = "object" /\ structure.include.present /\ structure.exclude.present
    \/ structure.kind = "object" /\ ~structure.include.present /\ ~structure.exclude.present
    \/ IsInclusion(structure) /\ (field = "ok" \/ field \in Listed(InclusionList(structure)))
    \/ /\ structure.kind = "object" /\ ~structure.include.present /\ structure.exclude.present
       /\ ~Excludes(structure, field)

InAiMode ==
    /\ caller = "summarize"
    /\ contentKind = "string"
    /\ options.useAI
    /\ isGeminiConfigValid(options.gemini)
    /\ stage = "Done"
    /\ Len(cleanedText) >= options.minLength

\* the AI service rejected: summarizeText ran in its place
AiFailed == InAiMode /\ pc # "Idle"

\* C13: in AI mode with a valid configuration the call resolves with ok = true;
\* when the AI service rejects, the summary is what
\* summarizeText(cleanedText, sentenceCount) returned, and neither error nor
\* message is in the record.
C13_AiFailureFallsBack ==
    InAiMode =>
        /\ ~response.threw
        /\ response.value.ok
        /\ ~AiFailed => response.value.summary \in AiReplies
        /\ AiFailed =>
              /\ api = "summarizeText"
              /\ text = cleanedText
              /\ sentenceCount = options.sentenceCount
              /\ outcome = "returned"
              /\ response.value.summary = result
              /\ {"error", "message"} \cap Keys(response.value) = {}

\* the service rejected and the engine chose a strict part of the cleaned text
C13_Witness ==
    /\ AiFailed
    /\ response.value.ok
    /\ response.value.summary = result
    /\ result # <<>>
    /\ Len(result) < Len(cleanedText)

\* AI mode is asked for and the credential is missing: no configuration, or
\* an apiKey that is empty or white space
CredentialMissing ==
    /\ caller = "summarize"
    /\ contentKind = "string"
    /\ options.useAI
    /\ ~isGeminiConfigValid(options.gemini)

\* C14: with useAI = true and a missing credential (no Gemini configuration, or
\* a blank apiKey) summarize returns a record with ok = false, and the AI
\* service is never called.
C14_MissingCredentialFails ==
    CredentialMissing =>
        /\ stage # "AwaitingAI"
        /\ stage = "Done" =>
              \/ "ok" \notin Keys(response.value)
              \/ response.value.ok = FALSE

\* the sentences have been scored by one of the three Arabic scorers the claim
\* names: scoreArabicSentences of summarizeText, or the basic or the advanced
\* scorer of summarizeArabicText
OnArabicScorer ==
    /\ pc \in {"Scored", "Selected", "Joined"}
    /\ \/ api = "summarizeText" /\ isArabic(text)
       \/ api = "summarizeArabicText"

\* the words of the scored sentences
ScoredWords ==
    {w \in UNION {{Split("space", sentences[i])[j] :
                      j \in 1..Len(Split("space", sentences[i]))} : i \in 1..Len(sentences)} :
        Len(normalizedWord(w)) > 1}

\* how often a spelling of the word occurs in the sentences, diacritics aside
Occurrences(word) ==
    Cardinality({p \in UNION {{<<i, j>> : j \in 1..Len(Split("space", sentences[i]))} :
                                 i \in 1..Len(sentences)} :
        normalizedWord(Split("space", sentences[p[1]])[p[2]]) = normalizedWord(word)})

\* what the scorer of the run reads from its table for the word
LookedUp(word) ==
    IF api = "summarizeText"
    THEN LookupWord(wordFrequencyArabic(sentences), word)
    ELSE IF hasAnyArabicLibrary(loaded)
         THEN LookupNormalizedWord(wordFrequencyAdvanced(sentences), word)
         ELSE LookupNormalizedWord(wordFrequencyBasic(sentences), word)

\* C15: in every Arabic scoring path the spellings of a word that differ only
\* by diacritics are one token: the count a sentence score reads for the word
\* is the number of occurrences of all its spellings.
C15_DiacriticsCollapse ==
    OnArabicScorer => \A w \in ScoredWords : LookedUp(w) = Occurrences(w)

\* C16: normalizing a normalized token returns it unchanged, for the
\* lowercasing of English words and for NFD followed by the removal of the
\* diacritics of Arabic words.
C16_NormalizationIdempotent ==
    \A i \in 2..Len(normalized) : normalized[i] = normalized[i - 1]

\* an Arabic token with a precomposed letter and a diacritic, normalized twice
C16_Witness ==
    /\ token.language = "ar"
    /\ \E i \in 1..Len(token.text) : token.text[i] = 1570
    /\ \E i \in 1..Len(token.text) : token.text[i] = 1614
    /\ Len(normalized) = 2
    /\ normalized[1] # token.text
    /\ normalized[2] = normalized[1]

\* the topic list of the language of the text
TopicList(t) == IF isArabic(t) THEN commonArabicTopics ELSE commonEnglishTopics

\* C18: a call of extractTopics with a limit >= 0 returns at most limit topics,
\* each one of the topic list of the text's language and each one occurring in
\* the text, case aside.
C18_AtMostLimitListedTopics ==
    (topicsCall.returned /\ topicsCall.limit.given /\ topicsCall.limit.value >= 0) =>
        /\ Len(topicsCall.topics) <= topicsCall.limit.value
        /\ \A i \in 1..Len(topicsCall.topics) :
              /\ \E k \in 1..Len(TopicList(topicsCall.text)) :
                    TopicList(topicsCall.text)[k] = topicsCall.topics[i]
              /\ Includes(ToLowerCase(topicsCall.text), ToLowerCase(topicsCall.topics[i]))

\* a summarize call has returned on a degenerate input: the content is a
\* string that is empty or white space, or that has at most sentenceCount
\* sentences once cleaned; no responseStructure, no AI mode, and nothing threw
\* inside the engine
DegenerateInput ==
    /\ caller \in Summarizers
    /\ contentKind = "string"
    /\ stage = "Done"
    /\ options.responseStructure.kind = "null"
    /\ ~options.useAI
    /\ pc # "FallbackTruncate"
    /\ \/ Len(Trim(content)) = 0
       \/ Len(extractSentences(cleanedText)) <= options.sentenceCount

\* C19: on a degenerate input summarize short-circuits: the record has
\* ok = true and its summary is the cleaned text.
C19_DegenerateShortCircuits ==
    DegenerateInput =>
        /\ ~response.threw
        /\ response.value.ok
        /\ response.value.summary = cleanedText

\* C20: every sentence the segmenter returns is trimmed and not empty, in the
\* Arabic and in the Latin branch of extractSentences and in
\* extractArabicSentences.
C20_NoBlankSentence ==
    pc \in {"Segmented", "ShortCircuit", "Scored", "Selected", "Joined", "FailedScore"} =>
        \A i \in 1..Len(sentences) :
            /\ Len(Trim(sentences[i])) > 0
            /\ sentences[i] = Trim(sentences[i])

\* what the call returns when it is the only one: the value of summarize for
\* its content, its options and the answer its AI request got
summarizeAlone(c, o, ai) ==
    LET first == BeforeAwait(c, o)
    IN  IF first.stage = "Done" THEN first.response
        ELSE AfterAwait(first.cleanedText, o, ai)

HasScored == pc \in {"Scored", "Selected", "Joined"}

\* C21: a scorer only annotates: for N sentences it returns N scored
\* sentences, the i-th with index i (from 0) and, in the scorers of
\* summarizeText and summarizeArabicText, with the text of the i-th sentence.
C21_ScorerOnlyAnnotates ==
    HasScored =>
        /\ Len(scoredSentences) = Len(sentences)
        /\ \A i \in 1..Len(scoredSentences) :
              /\ scoredSentences[i].index = i - 1
              /\ api \in NamedEngines => scoredSentences[i].text = sentences[i]

\* three sentences scored, with two different scores among them
C21_Witness ==
    /\ pc = "Scored"
    /\ api \in NamedEngines
    /\ Len(scoredSentences) = 3
    /\ ~ScoreEqual(scoredSentences[1].score, scoredSentences[2].score)
    /\ scoredSentences[3].index = 2
    /\ scoredSentences[3].text = sentences[3]

\* the scorer that the call in progress uses works on Arabic text
ArabicPolicy == api # "summarizeText" \/ isArabic(text)

\* the tokens of a sentence, as the policy in use splits it
TokensOf(sentence) ==
    IF ArabicPolicy THEN Split("space", sentence) ELSE MatchWords(ToLowerCase(sentence))

\* the tokens kept after dropping those of length <= 1
KeptTokens(sentence) == SelectSeq(TokensOf(sentence), LAMBDA w : Len(w) > 1)

\* the minimum the specification names for the language
LanguageMinimum == IF ArabicPolicy THEN 2 ELSE 3

\* C22: in every scoring policy a sentence whose count of kept tokens (those
\* longer than one unit) is below the minimum of the language, 3 for English
\* and 2 for Arabic, has the score exactly 0, and it stays in the scored
\* sequence at its place.
C22_BelowMinimumScoresZero ==
    HasScored =>
        /\ Len(scoredSentences) = Len(sentences)
        /\ \A i \in 1..Len(sentences) :
              Len(KeptTokens(sentences[i])) < LanguageMinimum
                  => scoredSentences[i].score = Zero

\* the policies that divide a sum of frequencies by a count of tokens: the two
\* scorers of summarizeText and scoreArabicSentencesBasic
FrequencyPolicy ==
    api = "summarizeText" \/ (api = "summarizeArabicText" /\ ~hasAnyArabicLibrary(loaded))

\* a token as the table of the policy holds it
TableWord(w) == IF api = "summarizeArabicText" THEN normalizedWord(w) ELSE w

\* the kept tokens of the whole document
DocumentTokens ==
    Flatten([i \in 1..Len(sentences) |->
        LET kept == KeptTokens(sentences[i])
        IN  [j \in 1..Len(kept) |-> TableWord(kept[j])]])

\* the sum of the document-wide frequencies of the kept tokens of a sentence,
\* divided by their number
MeanFrequency(sentence) ==
    LET kept == KeptTokens(sentence)
    IN  Rational(SumSeq([j \in 1..Len(kept) |-> Frequency(DocumentTokens, TableWord(kept[j]))]),
                 Len(kept), 1)

\* the positional and marker boosts of the policy in use, on sentence i
BoostsOf(base, i) ==
    IF api = "summarizeArabicText"
    THEN MarkerBoost(PositionalBoostArabic(base, i - 1, Len(sentences)),
                     sentences[i], importantTermsBasic, 5, 4)
    ELSE IF isArabic(text)
    THEN MarkerBoost(PositionalBoostText(base, i - 1, Len(sentences)),
                     sentences[i], importantTermsText, 23, 20)
    ELSE PositionalBoostText(base, i - 1, Len(sentences))

\* C23: for a sentence with at least the minimum of tokens, the score before
\* the positional and marker boosts is the sum of the document-wide
\* frequencies of its kept tokens divided by the number of those same tokens.
C23_ScoreIsMeanFrequency ==
    HasScored /\ FrequencyPolicy =>
        \A i \in 1..Len(sentences) :
            Len(KeptTokens(sentences[i])) >= LanguageMinimum
                => ScoreEqual(scoredSentences[i].score, BoostsOf(MeanFrequency(sentences[i]), i))

\* the basic policy of each language: scoreEnglishSentences, and
\* scoreArabicSentencesBasic
BasicPolicy ==
    \/ api = "summarizeText" /\ ~isArabic(text)
    \/ api = "summarizeArabicText" /\ ~hasAnyArabicLibrary(loaded)

\* the markers the specification names for English, "must", "essential" and
\* "in conclusion" (scoreEnglishSentences has no list), and the list of
\* scoreArabicSentencesBasic
MarkersOfPolicy ==
    IF api = "summarizeText"
    THEN << <<109, 117, 115, 116>>,
            <<101, 115, 115, 101, 110, 116, 105, 97, 108>>,
            <<105, 110, 32, 99, 111, 110, 99, 108, 117, 115, 105, 111, 110>> >>
    ELSE importantTermsBasic

HasMarker(sentence) ==
    \E k \in 1..Len(MarkersOfPolicy) : Includes(sentence, MarkersOfPolicy[k])

\* the marker factors of the scorers: 1.15, 1.25, 1.3
MarkerFactors == {<<23, 20>>, <<5, 4>>, <<13, 10>>}

\* the score of sentence i of the basic policy after the positional boost
BeforeMarker(i) ==
    LET words == TokensOf(sentences[i])
        total == SumSeq([j \in 1..Len(words) |->
                    IF Len(words[j]) > 1
                    THEN Frequency(DocumentTokens, TableWord(words[j])) ELSE 0])
        base == Rational(total, Len(words), 1)
    IN  IF Len(words) < LanguageMinimum THEN Zero
        ELSE IF api = "summarizeText" THEN PositionalBoostText(base, i - 1, Len(sentences))
        ELSE PositionalBoostArabic(base, i - 1, Len(sentences))

\* C24: in the basic policy of English and of Arabic a sentence that contains
\* at least one marker has its score multiplied by the marker factor exactly
\* once, however many markers it contains, and a sentence without marker is
\* not multiplied.
C24_MarkerBoostOnce ==
    HasScored /\ BasicPolicy =>
        \A i \in 1..Len(sentences) :
            IF HasMarker(sentences[i])
            THEN \E f \in MarkerFactors :
                    ScoreEqual(scoredSentences[i].score, Times(BeforeMarker(i), f[1], f[2]))
            ELSE ScoreEqual(scoredSentences[i].score, BeforeMarker(i))

\* the Arabic scorers that C25 cites: scoreArabicSentences of summarizeText,
\* scoreArabicSentencesBasic, and the scorer of the stand-alone summarizer
ArabicPath ==
    \/ api = "summarizeText" /\ isArabic(text)
    \/ api = "summarizeArabicText" /\ ~hasAnyArabicLibrary(loaded)
    \/ api = "summarizeArabicTextLib"

\* the score of sentence i of an Arabic path before any boost
BeforeBoosts(i) ==
    LET words == Split("space", sentences[i])
    IN  IF api = "summarizeArabicTextLib"
        THEN Rational(SumSeq([j \in 1..Len(words) |->
                         Frequency(calculateArabicWordFrequencies(sentences), words[j])]),
                      1, Len(words))
        ELSE IF Len(words) < 2 THEN Zero
        ELSE Rational(SumSeq([j \in 1..Len(words) |->
                         IF Len(words[j]) > 1
                         THEN Frequency(DocumentTokens, TableWord(words[j])) ELSE 0]),
                      Len(words), 1)

\* the marker boost of the Arabic path in use, on sentence i
MarkerOfPath(score, i) ==
    IF api = "summarizeArabicTextLib" THEN MarkerBoost(score, sentences[i], indicatorPhrases, 13, 10)
    ELSE IF api = "summarizeArabicText" THEN MarkerBoost(score, sentences[i], importantTermsBasic, 5, 4)
    ELSE MarkerBoost(score, sentences[i], importantTermsText, 23, 20)

\* sentence i carries the positional multiplier p / q and no other
PositionalIs(i, p, q) ==
    ScoreEqual(scoredSentences[i].score, MarkerOfPath(Times(BeforeBoosts(i), p, q), i))

\* the positional multipliers below 1.5: none, 1.1, 1.2, 1.25, 1.3
LighterFactors == {<<1, 1>>, <<11, 10>>, <<6, 5>>, <<5, 4>>, <<13, 10>>}

\* C25: in every Arabic scoring path the first sentence of the document gets
\* the positional multiplier 1.5, the last sentence a lighter one, and every
\* sentence at most one positional multiplier.
C25_ArabicFirstSentenceHeaviest ==
    HasScored /\ ArabicPath =>
        \A i \in 1..Len(sentences) :
            IF i = 1 THEN PositionalIs(i, 3, 2)
            ELSE \E f \in LighterFactors : PositionalIs(i, f[1], f[2])

\* C26: in the enhanced Arabic policy, when the backend throws on one
\* sentence, that sentence alone is split on white space, every other
\* sentence is still split by the backend, and scoring completes for all
\* sentences with no error reaching the caller of the scorer.
C26_BackendErrorStaysLocal ==
    /\ tokenization.thrown \subseteq 1..Len(tokenization.by)
    /\ \A i \in 1..Len(tokenization.by) :
          /\ tokenization.by[i] = (IF i \in tokenization.thrown THEN "whitespace" ELSE "backend")
          /\ tokenization.words[i] = Split("space", sentences[i])
    /\ (tokenization.thrown # {} /\ Len(tokenization.by) = Len(sentences)) =>
          /\ pc \in {"Segmented", "Scored"}
          /\ outcome = "pending"
    /\ (pc = "Scored" /\ tokenization.thrown # {}) =>
          /\ Len(scoredSentences) = Len(sentences)
          /\ Len(tokenization.by) = Len(sentences)

C26_Witness ==
    /\ pc = "Scored"
    /\ api = "summarizeArabicText"
    /\ Len(sentences) = 3
    /\ tokenization.thrown = {2}
    /\ tokenization.by = <<"backend", "whitespace", "backend">>
    /\ Len(scoredSentences) = 3

\* C27: the enhancement capability is set once, at module load, and is
\* constant afterwards: the load of each optional package is attempted whether
\* or not the others failed, no summarization call changes which packages are
\* recorded, and hasAnyArabicLibrary() is true iff at least one was loaded.
C27_CapabilitySetOnce ==
    /\ [](hasAnyArabicLibrary(loaded) <=> loaded # {})
    /\ [][(LoadingAt > 0 => pc' = AfterRequire(LoadingAt))
          /\ (LoadingAt = 0 => loaded' = loaded)]_vars

C27_Witness ==
    /\ loaded = {"nodeArabic", "arWordTokenizer"}
    /\ pc = "Joined"
    /\ Len(sentences) = 3
    /\ Len(topSentences) = 1

\* summarize has called the engine summarizeText and the call is in progress
EngineCalledBySummarize == caller # "none" /\ stage = "Summarizing"

\* C28: whatever sentenceCount the caller supplies (0, negative and large
\* values included), the count that summarize hands to summarizeText is at
\* least 1 and at most the maximum, before selection is reached.
C28_CountClamped ==
    EngineCalledBySummarize =>
        /\ sentenceCount >= 1
        /\ sentenceCount <= MaxSentenceCount

\* the scored sentences that were left out of the selection
LeftOut ==
    SelectSeq(scoredSentences,
              LAMBDA s : ~\E k \in 1..Len(topSentences) : topSentences[k].index = s.index)

ListedSteps ==
    { <<"Start", "Segmented">>, <<"Segmented", "ShortCircuit">>,
      <<"Segmented", "Scored">>, <<"Scored", "Selected">>, <<"Selected", "Joined">>,
      <<"Start", "FailedSegment">>, <<"Segmented", "FailedScore">>,
      <<"FailedSegment", "FallbackTruncate">>, <<"FailedScore", "FallbackTruncate">> }

\* where the listed paths return: after the short-circuit (its return is its
\* join), after joining, after the fallback
ListedReturns == {"ShortCircuit", "Joined", "FallbackTruncate"}

\* what every path keeps: the short-circuit is taken iff the sentences are at
\* most sentenceCount and then nothing is scored or selected; nothing is
\* selected before the scores exist, nothing scored before segmentation
PathFacts ==
    /\ pc = "ShortCircuit" =>
          /\ Len(sentences) <= sentenceCount
          /\ scoredSentences = <<>>
          /\ topSentences = <<>>
    /\ pc \in {"Scored", "Selected", "Joined"} => ~(Len(sentences) <= sentenceCount)
    /\ pc \in {"Selected", "Joined"} => Len(scoredSentences) = Len(sentences)
    /\ topSentences # <<>> => pc \in {"Selected", "Joined"}
    /\ scoredSentences # <<>> => pc \in {"Scored", "Selected", "Joined"}
    /\ sentences # <<>> => pc # "Start"

\* C29 as stated: every call of summarizeText or summarizeArabicText
\* terminates with a returned string after exactly one of the listed paths:
\* Start, Segmented, ShortCircuit, Joined; Start, Segmented, Scored, Selected,
\* Joined; or Failed, FallbackTruncate.
C29_OneListedPath ==
    /\ <>(api \in NamedEngines => outcome = "returned")
    /\ [](api \in NamedEngines =>
            /\ PathFacts
            /\ outcome # "raised"
            /\ outcome = "returned" => pc \in ListedReturns)
    /\ [][(api \in NamedEngines /\ pc' # pc) => <<pc, pc'>> \in ListedSteps]_vars

\* C29, amended: the listed paths and one more, the guard of the blank or
\* non-string text, which returns '' from Start before any segmentation.
C29_OnePathToReturn ==
    /\ <>(api \in NamedEngines => outcome = "returned")
    /\ [](api \in NamedEngines =>
            /\ PathFacts
            /\ outcome # "raised"
            /\ outcome = "returned" => pc \in ListedReturns \cup {"Empty"}
            /\ pc = "Empty" => IsBlankInput /\ result = <<>> /\ sentences = <<>>)
    /\ [][(api \in NamedEngines /\ pc' # pc) =>
              <<pc, pc'>> \in ListedSteps \cup {<<"Start", "Empty">>}]_vars

C29_Witness ==
    /\ api \in NamedEngines
    /\ pc = "Joined"
    /\ outcome = "returned"
    /\ Len(sentences) = 2
    /\ Len(scoredSentences) = 2
    /\ Len(topSentences) = 1
    /\ result # <<>>

================================================================================
